---------------------------- MODULE Spec2Model ----------------------------
(***************************************************************************)
(* A model of radc/slr-scripts: search_pdf.py (boolean-query search over   *)
(* a folder of PDF files), and the crawlers webcrawler.py and              *)
(* webcrawler-v2.py.  Python strings are TLA+ strings; indices are kept    *)
(* 0-based as in the code, and Slice(s, i, j) is Python's s[i:j].          *)
(***************************************************************************)
EXTENDS Integers, Sequences, FiniteSets, TLC

(***************************************************************************)
(* Bounds of the model.                                                    *)
(***************************************************************************)
MaxQueries == 2     \* lines of a generated query file
MaxDocs    == 3     \* PDF files in the folder
MaxProcs   == 2     \* worker processes (-p)
MaxTokens  == 5     \* tokens handed to Parser directly
MaxChars   == 4     \* characters of a generated inline expression

(***************************************************************************)
(* Python str helpers.                                                     *)
(***************************************************************************)
Min(a, b) == IF a < b THEN a ELSE b

\* s[i:j] for 0 <= i, clamped at len(s) as Python does
Slice(s, i, j) == SubSeq(s, i + 1, Min(j, Len(s)))
\* s[i]
CharAt(s, i) == SubSeq(s, i + 1, i + 1)

LowerLetters == "abcdefghijklmnopqrstuvwxyz"
UpperLetters == "ABCDEFGHIJKLMNOPQRSTUVWXYZ"
LowerSet == {CharAt(LowerLetters, i) : i \in 0..25}
UpperSet == {CharAt(UpperLetters, i) : i \in 0..25}
LetterIndex(letters, c) == CHOOSE i \in 0..25 : CharAt(letters, i) = c
ToUpper == [c \in LowerSet |-> CharAt(UpperLetters, LetterIndex(LowerLetters, c))]
ToLower == [c \in UpperSet |-> CharAt(LowerLetters, LetterIndex(UpperLetters, c))]

\* str.isspace / str.isalpha on one character (ASCII)
isspace(c) == c \in {" ", "\t", "\n", "\r", "\f"}

\* a test for a letter that no character passes
isalpha_never(c) == FALSE

isalpha(c) == c \in LowerSet \/ c \in UpperSet

upper1(c) == IF c \in LowerSet THEN ToUpper[c] ELSE c
lower1(c) == IF c \in UpperSet THEN ToLower[c] ELSE c

RECURSIVE upper(_)
upper(s) == IF s = "" THEN "" ELSE upper1(CharAt(s, 0)) \o upper(Tail(s))
RECURSIVE lower(_)
lower(s) == IF s = "" THEN "" ELSE lower1(CharAt(s, 0)) \o lower(Tail(s))

\* sub in s
contains(s, sub) ==
    \E i \in 0..(Len(s) - Len(sub)) : Slice(s, i, i + Len(sub)) = sub

\* s.find(c, start): first index >= start holding the character c, else -1
find(s, c, start) ==
    IF \E k \in start..(Len(s) - 1) : CharAt(s, k) = c
    THEN CHOOSE k \in start..(Len(s) - 1) :
            /\ CharAt(s, k) = c
            /\ \A m \in start..(k - 1) : CharAt(s, m) # c
    ELSE -1

\* s.strip(c) for a one-character c: every leading and trailing c removed
RECURSIVE strip_char(_, _)
strip_char(s, c) ==
    IF s = "" THEN ""
    ELSE IF CharAt(s, 0) = c THEN strip_char(Tail(s), c)
    ELSE IF CharAt(s, Len(s) - 1) = c THEN strip_char(Slice(s, 0, Len(s) - 1), c)
    ELSE s

\* s.strip(): leading and trailing whitespace removed
RECURSIVE strip(_)
strip(s) ==
    IF s = "" THEN ""
    ELSE IF isspace(CharAt(s, 0)) THEN strip(Tail(s))
    ELSE IF isspace(CharAt(s, Len(s) - 1)) THEN strip(Slice(s, 0, Len(s) - 1))
    ELSE s

startswith(s, p) == Slice(s, 0, Len(p)) = p
endswith(s, p)   == Len(s) >= Len(p) /\ Slice(s, Len(s) - Len(p), Len(s)) = p

(***************************************************************************)
(* Query trees: TermNode and OpNode.                                       *)
(***************************************************************************)
\* TermNode.__init__: the term is the token with its quotes stripped (the
\* pattern is compiled from the term where it is used, in TermEvaluate)
TermNode(token) == [class |-> "TermNode", term |-> strip_char(token, "\"")]

OpNode(op, children) == [class |-> "OpNode", op |-> op, children |-> children]

\* the characters re.escape puts a backslash before
RegexSpecials ==
    {"(", ")", "[", "]", "{", "}", "?", "*", "+", "-", "|", "^", "$", "\\", ".",
     "&", "~", "#", " ", "\t", "\n", "\r", "\f"}

\* re.escape(term)
RECURSIVE re_escape(_)
re_escape(s) ==
    IF s = "" THEN ""
    ELSE (IF CharAt(s, 0) \in RegexSpecials THEN "\\" \o CharAt(s, 0) ELSE CharAt(s, 0))
         \o re_escape(Tail(s))

\* the pattern matched at index i of text with the letter case respected
RECURSIVE match_at_case_sensitive(_, _, _)
match_at_case_sensitive(pattern, text, i) ==
    IF pattern = "" THEN TRUE
    ELSE LET esc == CharAt(pattern, 0) = "\\" /\ Len(pattern) > 1
             c == IF esc THEN CharAt(pattern, 1) ELSE CharAt(pattern, 0)
             rest == IF esc THEN Slice(pattern, 2, Len(pattern)) ELSE Tail(pattern)
         IN /\ i < Len(text)
            /\ CharAt(text, i) = c
            /\ match_at_case_sensitive(rest, text, i + 1)

\* the pattern re.compile(re.escape(term), re.IGNORECASE) matched at index i
\* of text: a backslash makes the next character literal, an unescaped dot
\* matches any character but a line break, and every other character
\* matches itself in either case
RECURSIVE match_at(_, _, _)
match_at(pattern, text, i) ==
    IF pattern = "" THEN TRUE
    ELSE LET esc == CharAt(pattern, 0) = "\\" /\ Len(pattern) > 1
             c == IF esc THEN CharAt(pattern, 1) ELSE CharAt(pattern, 0)
             rest == IF esc THEN Slice(pattern, 2, Len(pattern)) ELSE Tail(pattern)
         IN /\ i < Len(text)
            /\ IF ~esc /\ c = "." THEN CharAt(text, i) # "\n"
               ELSE lower1(CharAt(text, i)) = lower1(c)
            /\ match_at(rest, text, i + 1)

\* pattern.search(text)
pattern_search(pattern, text) == \E i \in 0..Len(text) : match_at(pattern, text, i)

\* TermNode.evaluate: bool(self.pattern.search(text))
TermEvaluate(node, text) == pattern_search(re_escape(node.term), text)

\* OpNode.evaluate / TermNode.evaluate
RECURSIVE evaluate(_, _)
evaluate(node, text) ==
    IF node.class = "TermNode" THEN TermEvaluate(node, text)
    ELSE IF node.op = "AND"
         THEN \A k \in 1..Len(node.children) : evaluate(node.children[k], text)
         ELSE \E k \in 1..Len(node.children) : evaluate(node.children[k], text)

(***************************************************************************)
(* tokenize.  The result is [ok |-> TRUE, tokens |-> ...] or, where the    *)
(* code raises ValueError, [ok |-> FALSE, error |-> message].              *)
(***************************************************************************)
Raise(msg) == [ok |-> FALSE, error |-> msg]

\* end of the bare word starting at i: the inner while loop of tokenize
RECURSIVE word_end(_, _)
word_end(expr, j) ==
    IF j < Len(expr) /\ ~isspace(CharAt(expr, j)) /\ CharAt(expr, j) \notin {"(", ")"}
    THEN word_end(expr, j + 1)
    ELSE j

RECURSIVE tokenize_from(_, _, _)
tokenize_from(expr, i, tokens) ==
    IF ~(i < Len(expr)) THEN [ok |-> TRUE, tokens |-> tokens]
    ELSE LET c == CharAt(expr, i) IN
      IF isspace(c) THEN tokenize_from(expr, i + 1, tokens)
      ELSE IF c \in {"(", ")"} THEN tokenize_from(expr, i + 1, Append(tokens, c))
      ELSE IF /\ upper(Slice(expr, i, i + 3)) = "AND"
              /\ (i + 3 = Len(expr) \/ ~isalpha(CharAt(expr, i + 3)))
           THEN tokenize_from(expr, i + 3, Append(tokens, "AND"))
      ELSE IF /\ upper(Slice(expr, i, i + 2)) = "OR"
              /\ (i + 2 = Len(expr) \/ ~isalpha(CharAt(expr, i + 2)))
           THEN tokenize_from(expr, i + 2, Append(tokens, "OR"))
      ELSE IF c = "\""
           THEN LET j == find(expr, "\"", i + 1) IN
                IF j = -1 THEN Raise("Unmatched quote in expression")
                ELSE tokenize_from(expr, j + 1, Append(tokens, Slice(expr, i, j + 1)))
      ELSE LET j == word_end(expr, i) IN
           tokenize_from(expr, j, Append(tokens, Slice(expr, i, j)))

tokenize(expr) == tokenize_from(expr, 0, <<>>)

(***************************************************************************)
(* Parser.  A parse_* result is [ok |-> TRUE, node |-> n, pos |-> p], the  *)
(* node returned and self.pos after the call, or Raise(message).           *)
(***************************************************************************)
Ret(node, pos) == [ok |-> TRUE, node |-> node, pos |-> pos]

RECURSIVE parse_or(_, _), parse_or_loop(_, _, _), parse_and(_, _),
          parse_and_loop(_, _, _), parse_term(_, _),
          parse_and_loop_nested(_, _, _), parse_or_loop_no_precedence(_, _, _)

parse_term(tokens, pos) ==
    IF pos >= Len(tokens) THEN Raise("Incomplete expression; expected term or '('")
    ELSE LET token == tokens[pos + 1] IN
      IF token = "("
      THEN LET r == parse_or(tokens, pos + 1) IN
           IF ~r.ok THEN r
           ELSE IF r.pos >= Len(tokens) \/ tokens[r.pos + 1] # ")"
                THEN Raise("Expected ')' to close parentheses")
                ELSE Ret(r.node, r.pos + 1)
      ELSE Ret(TermNode(token), pos + 1)

\* a loop of parse_and that nests: each AND wraps what was parsed so far
parse_and_loop_nested(tokens, pos, nodes) ==
    IF pos < Len(tokens) /\ tokens[pos + 1] = "AND"
    THEN LET r == parse_term(tokens, pos + 1) IN
         IF ~r.ok THEN r
         ELSE parse_and_loop_nested(tokens, r.pos, <<OpNode("AND", <<nodes[1], r.node>>)>>)
    ELSE Ret(nodes[1], pos)

\* the while loop of parse_and, nodes collected so far
parse_and_loop(tokens, pos, nodes) ==
    IF pos < Len(tokens) /\ tokens[pos + 1] = "AND"
    THEN LET r == parse_term(tokens, pos + 1) IN
         IF ~r.ok THEN r ELSE parse_and_loop(tokens, r.pos, Append(nodes, r.node))
    ELSE Ret(IF Len(nodes) > 1 THEN OpNode("AND", nodes) ELSE nodes[1], pos)

parse_and(tokens, pos) ==
    LET r == parse_term(tokens, pos) IN
    IF ~r.ok THEN r ELSE parse_and_loop(tokens, r.pos, <<r.node>>)

\* a loop of parse_or without precedence: AND and OR are taken alike, left
\* to right, each wrapping what was parsed so far
parse_or_loop_no_precedence(tokens, pos, nodes) ==
    IF pos < Len(tokens) /\ tokens[pos + 1] \in {"AND", "OR"}
    THEN LET r == parse_term(tokens, pos + 1) IN
         IF ~r.ok THEN r
         ELSE parse_or_loop_no_precedence(tokens, r.pos,
                                          <<OpNode(tokens[pos + 1], <<nodes[1], r.node>>)>>)
    ELSE Ret(nodes[1], pos)

\* the while loop of parse_or, nodes collected so far
parse_or_loop(tokens, pos, nodes) ==
    IF pos < Len(tokens) /\ tokens[pos + 1] = "OR"
    THEN LET r == parse_and(tokens, pos + 1) IN
         IF ~r.ok THEN r ELSE parse_or_loop(tokens, r.pos, Append(nodes, r.node))
    ELSE Ret(IF Len(nodes) > 1 THEN OpNode("OR", nodes) ELSE nodes[1], pos)

parse_or(tokens, pos) ==
    LET r == parse_and(tokens, pos) IN
    IF ~r.ok THEN r ELSE parse_or_loop(tokens, r.pos, <<r.node>>)

\* parse without the test for tokens left over after parse_or
parse_no_trailing_check(tokens) == parse_or(tokens, 0)

\* Parser(tokens).parse()
parse(tokens) ==
    LET r == parse_or(tokens, 0) IN
    IF ~r.ok THEN r
    ELSE IF r.pos < Len(tokens) THEN Raise("Unexpected token")
    ELSE r

(***************************************************************************)
(* json.loads, restricted to the shapes the generated file contents can    *)
(* take: an integer or true/false/null, one string literal without escapes,*)
(* "[]", "{}", and an object {"queries": [string literals]}.  Anything     *)
(* else is reported as JSONDecodeError, which is what json.loads does for  *)
(* every plain-text content used here.                                     *)
(***************************************************************************)
Digits == {"0", "1", "2", "3", "4", "5", "6", "7", "8", "9"}

IsJsonInt(s) ==
    /\ s # ""
    /\ \A k \in 0..(Len(s) - 1) : CharAt(s, k) \in Digits
    /\ (Len(s) > 1 => CharAt(s, 0) # "0")

\* a string literal "..." with no quote, backslash or control character inside
IsJsonString(s) ==
    /\ Len(s) >= 2
    /\ CharAt(s, 0) = "\"" /\ CharAt(s, Len(s) - 1) = "\""
    /\ \A k \in 1..(Len(s) - 2) : CharAt(s, k) \notin {"\"", "\\", "\n", "\t", "\r", "\f"}

\* the elements of a JSON array body: string literals separated by commas;
\* [ok |-> FALSE] when the body is not of that shape
RECURSIVE json_items(_, _)
json_items(body, acc) ==
    LET b == strip(body) IN
    IF b = "" THEN [ok |-> acc = <<>>, items |-> acc]
    ELSE IF CharAt(b, 0) # "\"" THEN [ok |-> FALSE, items |-> <<>>]
    ELSE LET j == find(b, "\"", 1) IN
         IF j = -1 \/ ~IsJsonString(Slice(b, 0, j + 1)) THEN [ok |-> FALSE, items |-> <<>>]
         ELSE LET item == Slice(b, 1, j)
                  rest == strip(Slice(b, j + 1, Len(b)))
              IN IF rest = "" THEN [ok |-> TRUE, items |-> Append(acc, item)]
                 ELSE IF CharAt(rest, 0) = "," /\ strip(Tail(rest)) # ""
                      THEN json_items(Tail(rest), Append(acc, item))
                      ELSE [ok |-> FALSE, items |-> <<>>]

QueriesKey == "\"queries\""

json_loads(content) ==
    LET s == strip(content) IN
    IF IsJsonInt(s) \/ s \in {"true", "false", "null"} \/ IsJsonString(s) \/ s = "[]"
    THEN [kind |-> "value"]
    ELSE IF startswith(s, "{") /\ endswith(s, "}")
    THEN LET inner == strip(Slice(s, 1, Len(s) - 1)) IN
         IF inner = "" THEN [kind |-> "dict", has_queries |-> FALSE, queries |-> <<>>]
         ELSE IF ~startswith(inner, QueriesKey) THEN [kind |-> "JSONDecodeError"]
         ELSE LET after == strip(Slice(inner, Len(QueriesKey), Len(inner))) IN
              IF ~startswith(after, ":") THEN [kind |-> "JSONDecodeError"]
              ELSE LET arr == strip(Tail(after)) IN
                   IF ~(startswith(arr, "[") /\ endswith(arr, "]") /\ Len(arr) >= 2)
                   THEN [kind |-> "JSONDecodeError"]
                   ELSE LET it == json_items(Slice(arr, 1, Len(arr) - 1), <<>>) IN
                        IF it.ok
                        THEN [kind |-> "dict", has_queries |-> TRUE, queries |-> it.items]
                        ELSE [kind |-> "JSONDecodeError"]
    ELSE [kind |-> "JSONDecodeError"]

(***************************************************************************)
(* load_queries.                                                           *)
(***************************************************************************)
\* an optional value: None, or Some(v) holding v
None == <<>>
Some(v) == <<v>>

\* str.splitlines(): the pieces between line breaks (the code keeps only
\* the pieces that are non-empty after strip, so "\r\n" needs no special case)
RECURSIVE splitlines_from(_, _, _)
splitlines_from(s, cur, acc) ==
    IF s = "" THEN (IF cur = "" THEN acc ELSE Append(acc, cur))
    ELSE IF CharAt(s, 0) \in {"\n", "\r", "\f"}
         THEN splitlines_from(Tail(s), "", Append(acc, cur))
         ELSE splitlines_from(Tail(s), cur \o CharAt(s, 0), acc)

splitlines(s) == splitlines_from(s, "", <<>>)

RECURSIVE join(_, _)
join(sep, parts) ==
    IF parts = <<>> THEN ""
    ELSE IF Len(parts) = 1 THEN parts[1]
    ELSE parts[1] \o sep \o join(sep, Tail(parts))

\* [l.strip() for l in content.splitlines() if l.strip()]
RECURSIVE stripped_lines(_)
stripped_lines(ls) ==
    IF ls = <<>> THEN <<>>
    ELSE IF strip(ls[1]) # "" THEN <<strip(ls[1])>> \o stripped_lines(Tail(ls))
    ELSE stripped_lines(Tail(ls))

InlineOps == {" AND ", " OR ", "(", ")"}

\* the list load_queries has in `queries` before its emptiness test, or the
\* exception that escapes it
load_queries_list(search, search_file) ==
    IF search_file # None
    THEN LET content == strip(search_file[1])
             data == json_loads(content)
         IN IF data.kind = "dict" THEN [raised |-> FALSE, queries |-> data.queries]
            ELSE IF data.kind = "value" THEN [raised |-> TRUE, queries |-> <<>>]
            ELSE LET lines == stripped_lines(splitlines(content)) IN
                 IF Len(lines) > 1 /\ startswith(content, "(") /\ endswith(content, ")")
                 THEN [raised |-> FALSE, queries |-> <<join(" ", lines)>>]
                 ELSE [raised |-> FALSE, queries |-> lines]
    ELSE LET txt == strip(search[1])
             up == upper(txt)
         IN IF ~(\E op \in InlineOps : contains(up, op))
            THEN [raised |-> FALSE, queries |-> <<"\"" \o txt \o "\"">>]
            ELSE [raised |-> FALSE, queries |-> <<txt>>]

\* load_queries: "return" with the list, "exit" for sys.exit(1), "raise" for
\* an exception that is not caught (data.get on a value that is no dict)
load_queries(search, search_file) ==
    LET r == load_queries_list(search, search_file) IN
    IF r.raised THEN [kind |-> "raise", queries |-> <<>>]
    ELSE IF r.queries = <<>> THEN [kind |-> "exit", queries |-> <<>>]
    ELSE [kind |-> "return", queries |-> r.queries]

(***************************************************************************)
(* build_trees and search_in_pdf.                                          *)
(***************************************************************************)
\* tokenize then Parser(tokens).parse() for one query, as in the try block
compile(q) ==
    LET t == tokenize(q) IN
    IF ~t.ok THEN t ELSE parse(t.tokens)

\* build_trees: the trees of the queries that compile, and the lines
\* written to stderr for those that do not
RECURSIVE build_trees_from(_, _, _)
build_trees_from(qs, trs, errs) ==
    IF qs = <<>> THEN [trees |-> trs, stderr |-> errs]
    ELSE LET r == compile(qs[1]) IN
         IF r.ok THEN build_trees_from(Tail(qs), Append(trs, r.node), errs)
         ELSE build_trees_from(Tail(qs), trs, Append(errs, <<"Error parsing", qs[1], r.error>>))

build_trees(qs) == build_trees_from(qs, <<>>, <<>>)

\* [queries[i] for i, node in enumerate(trees) if node.evaluate(text)]
RECURSIVE matched_from(_, _, _, _)
matched_from(i, trs, qs, text) ==
    IF i >= Len(trs) THEN <<>>
    ELSE (IF evaluate(trs[i + 1], text) THEN <<qs[i + 1]>> ELSE <<>>)
         \o matched_from(i + 1, trs, qs, text)

(***************************************************************************)
(* The file system the run sees: the folder's PDF files and what           *)
(* PdfReader / extract_text give for each (readable |-> FALSE: PdfReader   *)
(* raises).                                                                *)
(***************************************************************************)
FolderName == "pdfs"

Doc1Text == "Deep learning for image compression on FPGA"
Doc2Text == "A survey of databases"

FileNames == <<"doc1.pdf", "doc2.pdf", "draft_doc1.pdf", "bad.pdf">>

FileContent(name) ==
    CASE name = "doc1.pdf"       -> [readable |-> TRUE,  text |-> Doc1Text]
      [] name = "doc2.pdf"       -> [readable |-> TRUE,  text |-> Doc2Text]
      [] name = "draft_doc1.pdf" -> [readable |-> TRUE,  text |-> Doc1Text]
      [] OTHER                   -> [readable |-> FALSE, text |-> ""]

\* os.path.join(folder, name) and os.path.basename(path)
path_join(folder, name) == folder \o "/" \o name

RECURSIVE basename(_)
basename(path) ==
    LET k == find(path, "/", 0) IN
    IF k = -1 THEN path ELSE basename(Slice(path, k + 1, Len(path)))

\* pattern.search(s) for the exclusion patterns used here, which are
\* literal strings: a case-sensitive substring search
re_search(pattern, s) == contains(s, pattern)

\* glob.glob(os.path.join(folder, '*.pdf')) over the folder's listing
RECURSIVE glob_pdf(_, _)
glob_pdf(folder, names) ==
    IF names = <<>> THEN <<>>
    ELSE (IF endswith(names[1], ".pdf") /\ ~startswith(names[1], ".")
          THEN <<path_join(folder, names[1])>> ELSE <<>>)
         \o glob_pdf(folder, Tail(names))

\* the exclusion pattern not applied
exclude_filter_off(pdfs, exclude) == pdfs

\* pdfs = [p for p in pdfs if not pattern.search(os.path.basename(p))],
\* applied only when args.exclude is given and non-empty
RECURSIVE exclude_filter(_, _)
exclude_filter(pdfs, exclude) ==
    IF exclude = None \/ exclude = Some("") THEN pdfs
    ELSE IF pdfs = <<>> THEN <<>>
    ELSE (IF ~re_search(exclude[1], basename(pdfs[1])) THEN <<pdfs[1]>> ELSE <<>>)
         \o exclude_filter(Tail(pdfs), exclude)

\* search_in_pdf without its try/except: PdfReader's error ends the task
search_in_pdf_no_except(path, trs, qs) ==
    LET f == FileContent(basename(path)) IN
    IF f.readable
    THEN [exception |-> FALSE, path |-> path, matched |-> matched_from(0, trs, qs, f.text)]
    ELSE [exception |-> TRUE, path |-> path, matched |-> <<>>]

\* search_in_pdf: what the task's future ends up holding.  The try/except
\* turns every failure of PdfReader into (path, []).
search_in_pdf(path, trs, qs) ==
    LET f == FileContent(basename(path)) IN
    IF f.readable
    THEN [exception |-> FALSE, path |-> path, matched |-> matched_from(0, trs, qs, f.text)]
    ELSE [exception |-> FALSE, path |-> path, matched |-> <<>>]

(***************************************************************************)
(* The state of one run of main().                                         *)
(***************************************************************************)
VARIABLES
    args,        \* the parsed command line and the folder's listing
    pc,          \* where main() is
    queries,     \* load_queries' result
    trees,       \* build_trees' result
    pdfs,        \* the paths to process, after glob and exclusion
    total,       \* len(pdfs)
    results,     \* the dict results, as its items in insertion order
    processed,   \* the processed counter
    futures,     \* the submitted tasks, in submission order
    yielded,     \* the futures as_completed has handed to the loop
    stdout,      \* lines printed to stdout
    stderr,      \* lines printed to stderr
    exit_code,   \* the process's exit status, None while it runs
    input,       \* argument of a function applied on its own
    output       \* its result

\* the state of one run of crawl() of webcrawler.py or webcrawler-v2.py
VARIABLES
    cargs,       \* the crawler's command line and the behaviour of the PDF server
    cpc,         \* where crawl() is
    visited,     \* the set visited
    queue,       \* the list queue
    files,       \* the files of the output directory, name and content
    warnings,    \* the lines of WARNINGS.txt
    traces,      \* the lines of trace.txt
    fetched,     \* every request made or page rendered, in order
    enqueued,    \* every entry ever appended to queue, in order
    dequeued     \* every entry ever popped from queue, in order

mainVars == <<args, pc, queries, trees, pdfs, total, results, processed,
              futures, yielded, stdout, stderr, exit_code>>
callVars == <<input, output>>
crawlVars == <<cargs, cpc, visited, queue, files, warnings, traces,
               fetched, enqueued, dequeued>>
vars == <<args, pc, queries, trees, pdfs, total, results, processed,
          futures, yielded, stdout, stderr, exit_code, input, output,
          cargs, cpc, visited, queue, files, warnings, traces,
          fetched, enqueued, dequeued>>

\* results[path] = matched on a dict kept as its items in insertion order
dict_set(d, key, value) ==
    IF \E k \in 1..Len(d) : d[k][1] = key
    THEN [k \in 1..Len(d) |-> IF d[k][1] = key THEN <<key, value>> ELSE d[k]]
    ELSE Append(d, <<key, value>>)

dict_keys(d) == {d[k][1] : k \in 1..Len(d)}

\* the number of worker processes busy with a task
Running == {k \in 1..Len(futures) : futures[k].state = "RUNNING"}
Pending == {k \in 1..Len(futures) : futures[k].state = "PENDING"}

(***************************************************************************)
(* The inputs of a run.                                                    *)
(***************************************************************************)
BoundedSeq(S, n) == UNION {[1..k -> S] : k \in 0..n}

\* the elements of seq at the indices in S, in order
RECURSIVE pick(_, _, _)
pick(seq, S, k) ==
    IF k > Len(seq) THEN <<>>
    ELSE (IF k \in S THEN <<seq[k]>> ELSE <<>>) \o pick(seq, S, k + 1)

Listings ==
    {pick(FileNames, S, 1) : S \in {T \in SUBSET (1..Len(FileNames)) : Cardinality(T) <= MaxDocs}}

QueryPool == {"FPGA", "database OR FPGA", "AND foo"}

EndToEndQueries == <<"deep compression AND FPGA", "database OR FPGA">>

\* the contents of the query file given with -f
QueryFiles ==
    {join("\n", qs) : qs \in BoundedSeq(QueryPool, MaxQueries)}
    \cup {join("\n", EndToEndQueries), "{\"queries\": []}",
          "{\"queries\": [\"FPGA\", \"survey AND databases\"]}"}

\* the expressions given with -s
InlineSearches == {"neural codec", "(a", "survey AND databases"}

SearchInputs ==
    {[search |-> None, search_file |-> Some(f)] : f \in QueryFiles}
    \cup {[search |-> Some(e), search_file |-> None] : e \in InlineSearches}

ExcludePatterns == {None, Some("draft")}

Args(isdir, listing, inp, exclude, processes) ==
    [folder_isdir |-> isdir, listing |-> listing, search |-> inp.search,
     search_file |-> inp.search_file, exclude |-> exclude, processes |-> processes]

MainStart ==
    /\ pc = "start"
    /\ queries = <<>> /\ trees = <<>> /\ pdfs = <<>> /\ total = 0
    /\ results = <<>> /\ processed = 0 /\ futures = <<>> /\ yielded = {}
    /\ stdout = <<>> /\ stderr = <<>> /\ exit_code = None

NoCall == input = None /\ output = None

\* no crawler is running
CrawlIdle ==
    /\ cpc = "idle" /\ cargs = None
    /\ visited = {} /\ queue = <<>> /\ files = <<>> /\ warnings = <<>> /\ traces = <<>>
    /\ fetched = <<>> /\ enqueued = <<>> /\ dequeued = <<>>

Init ==
    /\ MainStart
    /\ NoCall
    /\ CrawlIdle
    /\ \E inp \in SearchInputs, ex \in ExcludePatterns :
         \/ \E listing \in Listings, n \in 1..MaxProcs :
                args = Args(TRUE, listing, inp, ex, n)
         \/ args = Args(FALSE, <<>>, inp, ex, 1)

(***************************************************************************)
(* main(), one action per step.                                            *)
(***************************************************************************)
\* lines 174-176: the folder must be a directory
CheckFolder ==
    /\ pc = "start"
    /\ IF args.folder_isdir
       THEN /\ pc' = "load_queries"
            /\ UNCHANGED <<stderr, exit_code>>
       ELSE /\ pc' = "exit"
            /\ stderr' = Append(stderr, <<"is not a valid directory">>)
            /\ exit_code' = Some(1)
    /\ UNCHANGED crawlVars
    /\ UNCHANGED <<args, queries, trees, pdfs, total, results, processed,
                   futures, yielded, stdout, input, output>>

\* line 177: queries = load_queries(args.search, args.search_file)
LoadQueries ==
    /\ pc = "load_queries"
    /\ LET r == load_queries(args.search, args.search_file) IN
       CASE r.kind = "return" ->
              /\ queries' = r.queries
              /\ pc' = "build_trees"
              /\ UNCHANGED <<stderr, exit_code>>
         [] r.kind = "exit" ->
              /\ stderr' = Append(stderr, <<"No search terms found.">>)
              /\ exit_code' = Some(1)
              /\ pc' = "exit"
              /\ UNCHANGED queries
         [] OTHER ->
              /\ stderr' = Append(stderr, <<"Traceback">>)
              /\ exit_code' = Some(1)
              /\ pc' = "exit"
              /\ UNCHANGED queries
    /\ UNCHANGED crawlVars
    /\ UNCHANGED <<args, trees, pdfs, total, results, processed,
                   futures, yielded, stdout, input, output>>

\* line 178: trees = build_trees(queries)
BuildTrees ==
    /\ pc = "build_trees"
    /\ LET r == build_trees(queries) IN
         /\ trees' = r.trees
         /\ stderr' = stderr \o r.stderr
    /\ pc' = "glob"
    /\ UNCHANGED crawlVars
    /\ UNCHANGED <<args, queries, pdfs, total, results, processed,
                   futures, yielded, stdout, exit_code, input, output>>

\* the paths to process, without the test for an empty list: the pool is
\* opened and the loop over as_completed runs over no task
ListPdfs_no_empty_check ==
    /\ pc = "glob"
    /\ LET ps == exclude_filter(glob_pdf(FolderName, args.listing), args.exclude) IN
         /\ pdfs' = ps
         /\ total' = Len(ps)
         /\ pc' = IF Len(ps) = 0 THEN "as_completed" ELSE "submit"
    /\ results' = <<>>
    /\ processed' = 0
    /\ UNCHANGED crawlVars
    /\ UNCHANGED <<args, queries, trees, futures, yielded, stdout, stderr, exit_code,
                   input, output>>

\* lines 179-189: the paths to process; nothing to do when there are none
ListPdfs ==
    /\ pc = "glob"
    /\ LET ps == exclude_filter(glob_pdf(FolderName, args.listing), args.exclude) IN
         /\ pdfs' = ps
         /\ total' = Len(ps)
         /\ IF Len(ps) = 0
            THEN /\ stdout' = Append(stdout, <<"No PDF files to process.">>)
                 /\ exit_code' = Some(0)
                 /\ pc' = "exit"
            ELSE /\ pc' = "submit"
                 /\ UNCHANGED <<stdout, exit_code>>
    /\ results' = <<>>
    /\ processed' = 0
    /\ UNCHANGED crawlVars
    /\ UNCHANGED <<args, queries, trees, futures, yielded, stderr, input, output>>

\* line 192: executor.submit(search_in_pdf, path, trees, queries), one path
\* per step; the loop over as_completed starts when every path is submitted
Submit ==
    /\ pc = "submit"
    /\ futures' = Append(futures, [path |-> pdfs[Len(futures) + 1], state |-> "PENDING",
                                   result |-> None])
    /\ pc' = IF Len(futures) + 1 = total THEN "as_completed" ELSE "submit"
    /\ UNCHANGED crawlVars
    /\ UNCHANGED <<args, queries, trees, pdfs, total, results, processed,
                   yielded, stdout, stderr, exit_code, input, output>>

\* a free worker process takes the oldest pending task of the pool's queue
StartTask ==
    /\ Pending # {}
    /\ Cardinality(Running) < args.processes
    /\ LET k == CHOOSE m \in Pending : \A o \in Pending : m <= o IN
       futures' = [futures EXCEPT ![k].state = "RUNNING"]
    /\ UNCHANGED crawlVars
    /\ UNCHANGED <<args, pc, queries, trees, pdfs, total, results, processed,
                   yielded, stdout, stderr, exit_code, input, output>>

\* a worker process finishes search_in_pdf and the future gets its result
FinishTask(k) ==
    /\ futures[k].state = "RUNNING"
    /\ futures' = [futures EXCEPT ![k].state = "FINISHED",
                                  ![k].result = Some(search_in_pdf(futures[k].path, trees, queries))]
    /\ UNCHANGED crawlVars
    /\ UNCHANGED <<args, pc, queries, trees, pdfs, total, results, processed,
                   yielded, stdout, stderr, exit_code, input, output>>

\* results = {path: matched}: the entry replaces the dict
record_result_overwrite(d, path, matched) ==
    IF matched # <<>> THEN <<<<path, matched>>>> ELSE d

\* lines 198-199 on the dict: if matched: results[path] = matched
record_result(d, path, matched) ==
    IF matched # <<>> THEN dict_set(d, path, matched) ELSE d

\* a future that is yielded and not marked
mark_yielded_forget(ys, k) == ys

\* as_completed marks the future it yields
mark_yielded(ys, k) == ys \cup {k}

\* lines 193-199: one iteration of the loop over as_completed(future_to_pdf).
\* future.result() re-raises what the task raised; nothing catches it.
Collect(k) ==
    /\ pc = "as_completed"
    /\ k \notin yielded
    /\ futures[k].state = "FINISHED"
    /\ yielded' = mark_yielded(yielded, k)
    /\ LET r == futures[k].result[1] IN
       IF r.exception
       THEN /\ stderr' = Append(stderr, <<"Traceback">>)
            /\ exit_code' = Some(1)
            /\ pc' = "exit"
            /\ UNCHANGED <<results, processed, stdout>>
       ELSE /\ processed' = processed + 1
            /\ results' = record_result(results, r.path, r.matched)
            /\ stdout' = Append(stdout, <<"Processed", basename(r.path), processed + 1,
                                          total, Len(r.matched)>>)
            /\ UNCHANGED <<pc, stderr, exit_code>>
    /\ UNCHANGED crawlVars
    /\ UNCHANGED <<args, queries, trees, pdfs, total, futures, input, output>>

\* a loop that ends at the first future yielded
all_yielded_any(ys, fs) == ys # {}

\* the loop over as_completed ends when every future has been yielded
all_yielded(ys, fs) == ys = 1..Len(fs)

\* the lines of the final report for the items of results
RECURSIVE report_lines(_)
report_lines(d) ==
    IF d = <<>> THEN <<>>
    ELSE <<<<"File", d[1][1]>>>> \o [k \in 1..Len(d[1][2]) |-> <<"-", d[1][2][k]>>]
         \o report_lines(Tail(d))

\* lines 201-208: the loop and the pool are done; print the final report
FinalResults ==
    /\ pc = "as_completed"
    /\ all_yielded(yielded, futures)
    /\ stdout' = stdout \o <<<<"Final Results:">>>>
                 \o (IF results # <<>> THEN report_lines(results)
                     ELSE <<<<"No matching terms in PDFs.">>>>)
    /\ exit_code' = Some(0)
    /\ pc' = "exit"
    /\ UNCHANGED crawlVars
    /\ UNCHANGED <<args, queries, trees, pdfs, total, results, processed,
                   futures, yielded, stderr, input, output>>

Next ==
    \/ CheckFolder
    \/ LoadQueries
    \/ BuildTrees
    \/ ListPdfs
    \/ Submit
    \/ StartTask
    \/ \E k \in 1..Len(futures) : FinishTask(k)
    \/ \E k \in 1..Len(futures) : Collect(k)
    \/ FinalResults

Spec == Init /\ [][Next]_vars

(***************************************************************************)
(* Parser.parse applied on its own to a bounded token sequence.            *)
(***************************************************************************)
TokenPool == {"AND", "OR", "(", ")", "a", "\"b c\""}

MainIdle ==
    /\ pc = "idle"
    /\ args = Args(FALSE, <<>>, [search |-> None, search_file |-> None], None, 1)
    /\ queries = <<>> /\ trees = <<>> /\ pdfs = <<>> /\ total = 0
    /\ results = <<>> /\ processed = 0 /\ futures = <<>> /\ yielded = {}
    /\ stdout = <<>> /\ stderr = <<>> /\ exit_code = None

ParseInit ==
    /\ MainIdle
    /\ CrawlIdle
    /\ input \in {Some(ts) : ts \in BoundedSeq(TokenPool, MaxTokens)}
    /\ output = None

ApplyParse ==
    /\ input # None /\ output = None
    /\ output' = Some(parse(input[1]))
    /\ UNCHANGED crawlVars
    /\ UNCHANGED <<input, args, pc, queries, trees, pdfs, total, results, processed,
                   futures, yielded, stdout, stderr, exit_code>>

ParseNext == ApplyParse

ParseSpec == ParseInit /\ [][ParseNext]_vars

(***************************************************************************)
(* Runs of main() on every short inline expression (-s), over one folder.  *)
(***************************************************************************)
InlineAlphabet == {"a", " ", "\"", "o", "r", "("}

RECURSIVE concat(_)
concat(cs) == IF cs = <<>> THEN "" ELSE cs[1] \o concat(Tail(cs))

InlineInit ==
    /\ MainStart
    /\ NoCall
    /\ CrawlIdle
    /\ \E cs \in BoundedSeq(InlineAlphabet, MaxChars) :
         args = Args(TRUE, <<"doc2.pdf">>, [search |-> Some(concat(cs)), search_file |-> None],
                     None, 1)

InlineSpec == InlineInit /\ [][Next]_vars

(***************************************************************************)
(* What the claims speak of.                                               *)
(***************************************************************************)
Finished(k) == futures[k].state = "FINISHED"
Readable(path) == FileContent(basename(path)).readable
TextOf(path) == FileContent(basename(path)).text

\* the value of key in the dict d, <<>> when the key is absent
dict_get(d, key) ==
    IF key \in dict_keys(d) THEN d[CHOOSE k \in 1..Len(d) : d[k][1] = key][2] ELSE <<>>

\* the dict as a set of (key, value) pairs: its content without its order
dict_items(d) == {d[k] : k \in 1..Len(d)}

\* main() ran to the end of the loop and printed the final report
ReportEmitted == \E k \in 1..Len(stdout) : stdout[k] = <<"Final Results:">>

\* the strings of the queries that compile and are true on text, in
\* declaration order
RECURSIVE CompiledTrue(_, _)
CompiledTrue(qs, text) ==
    IF qs = <<>> THEN <<>>
    ELSE (IF compile(qs[1]).ok /\ evaluate(compile(qs[1]).node, text)
          THEN <<qs[1]>> ELSE <<>>)
         \o CompiledTrue(Tail(qs), text)

\* C1: the matched list a task returns for a readable document is exactly
\* the strings of the queries that compiled and evaluate true on its text,
\* in declaration order, wherever the malformed queries stand in the list.
C1_MatchedAreCompiledTrueQueries ==
    \A k \in 1..Len(futures) :
        (Finished(k) /\ Readable(futures[k].path))
            => futures[k].result[1].matched = CompiledTrue(queries, TextOf(futures[k].path))

\* C1 witness: a task has returned for a batch whose first query was dropped
C1_Witness ==
    \E k \in 1..Len(futures) :
        /\ Finished(k) /\ Readable(futures[k].path)
        /\ Len(queries) = 2 /\ Len(trees) = 1 /\ ~compile(queries[1]).ok

EndToEndRun ==
    /\ args.search_file = Some(join("\n", EndToEndQueries))
    /\ args.listing = <<"doc1.pdf", "doc2.pdf">>
    /\ args.exclude = None
    /\ pc = "exit" /\ ReportEmitted

Doc1Path == path_join(FolderName, "doc1.pdf")
Doc2Path == path_join(FolderName, "doc2.pdf")

RECURSIVE Leaves(_), LeavesOfAll(_)
LeavesOfAll(nodes) ==
    IF nodes = <<>> THEN <<>> ELSE Leaves(nodes[1]) \o LeavesOfAll(Tail(nodes))
Leaves(node) ==
    IF node.class = "TermNode" THEN <<node.term>> ELSE LeavesOfAll(node.children)

IsTermToken(t) == t \notin {"AND", "OR", "(", ")"}

\* the terms of the tokens that are words or phrases, left to right
RECURSIVE TermsOf(_)
TermsOf(tokens) ==
    IF tokens = <<>> THEN <<>>
    ELSE (IF IsTermToken(tokens[1]) THEN <<strip_char(tokens[1], "\"")>> ELSE <<>>)
         \o TermsOf(Tail(tokens))

\* C3: a successful parse has no empty term position: the leaves of the
\* tree are exactly the word and phrase tokens, so no TermNode is built
\* from an AND, OR or ')' token.
C3_NoOperatorBecomesTerm ==
    (output # None /\ output[1].ok) => Leaves(output[1].node) = TermsOf(input[1])

\* the content of the report of a run with arguments a: a function of the
\* query input, the folder and the exclusion pattern, not of the number of
\* worker processes nor of any order of completion
ReportContent(a) ==
    LET qs == load_queries(a.search, a.search_file).queries
        trs == build_trees(qs).trees
        ps == exclude_filter(glob_pdf(FolderName, a.listing), a.exclude)
    IN {<<ps[k], search_in_pdf(ps[k], trs, qs).matched>> :
           k \in {m \in 1..Len(ps) : search_in_pdf(ps[m], trs, qs).matched # <<>>}}

\* the position of path in pdfs, the order of submission
SubmitIndex(path) == CHOOSE k \in 1..Len(pdfs) : pdfs[k] = path

\* C4: the content of the final report (the reported documents and each
\* one's matched list) is the same whatever the number of workers and the
\* order in which the tasks complete.
C4_ReportContentIndependentOfOrder ==
    (pc = "exit" /\ ReportEmitted) => dict_items(results) = ReportContent(args)

\* C4 witness: a run with two workers whose report is not in the order of submission
C4_Witness ==
    /\ pc = "exit" /\ ReportEmitted /\ args.processes = 2
    /\ \E i, j \in 1..Len(results) :
         i < j /\ SubmitIndex(results[i][1]) > SubmitIndex(results[j][1])

\* main() or a worker process has a step to take (a running task can
\* always finish: FinishTask has no other condition)
CanStep ==
    \/ ENABLED Submit
    \/ ENABLED StartTask
    \/ Running # {}
    \/ ENABLED (\E k \in 1..Len(futures) : Collect(k))
    \/ ENABLED FinalResults

\* C5: a task whose text extraction fails returns an empty matched list
\* and raises nothing; the run is never aborted by it and can always go
\* on; at the end the document is counted, is not in the report, and every
\* other document has contributed its own result.
C5_ExtractionFailureIsolated ==
    /\ \A k \in 1..Len(futures) :
          (Finished(k) /\ ~Readable(futures[k].path))
              => futures[k].result[1] =
                     [exception |-> FALSE, path |-> futures[k].path, matched |-> <<>>]
    /\ (futures # <<>> /\ pc = "exit") => exit_code = Some(0)
    /\ pc \in {"submit", "as_completed"} => CanStep
    /\ (pc = "exit" /\ ReportEmitted) =>
          /\ processed = total
          /\ \A k \in 1..Len(pdfs) :
                IF Readable(pdfs[k])
                THEN dict_get(results, pdfs[k]) = matched_from(0, trees, queries, TextOf(pdfs[k]))
                ELSE pdfs[k] \notin dict_keys(results)

\* C5 witness: a finished run over an unreadable document and a document that matched
C5_Witness ==
    /\ pc = "exit" /\ ReportEmitted
    /\ \E k \in 1..Len(pdfs) : ~Readable(pdfs[k])
    /\ results # <<>>

C6_Inv ==
    /\ 0 <= processed /\ processed <= total
    /\ processed = Cardinality(yielded)
    /\ \A k \in 1..Len(results) :
          /\ results[k][2] # <<>>
          /\ \E m \in yielded : futures[m].path = results[k][1]
    /\ (pc = "exit" /\ futures # <<>>) => processed = total

C6_Step ==
    (processed' # processed \/ results' # results \/ yielded' # yielded) =>
        \E k \in 1..Len(futures) :
            /\ k \notin yielded /\ Finished(k)
            /\ yielded' = yielded \cup {k}
            /\ processed' = processed + 1
            /\ results' = IF futures[k].result[1].matched # <<>>
                          THEN Append(results, <<futures[k].path, futures[k].result[1].matched>>)
                          ELSE results

\* C6: every change of the counter or of the report is the whole
\* contribution of one finished task not yet counted (the counter goes up
\* by exactly 1 and the report gains that document's entry iff its matched
\* list is non-empty); 0 <= processed <= total always, every key of the
\* report is a counted document with a non-empty list, and processed =
\* total when the loop has ended.
C6_AtomicAggregation == []C6_Inv /\ [][C6_Step]_vars

\* C6 witness: two of three documents are counted and only one of them matched
C6_Witness == processed = 2 /\ total = 3 /\ Len(results) = 1

\* the lines of stdout after the line "Final Results:"
ReportLines ==
    LET h == CHOOSE k \in 1..Len(stdout) : stdout[k] = <<"Final Results:">>
    IN SubSeq(stdout, h + 1, Len(stdout))

\* the sections (path, listed terms) of printed report lines, in order
RECURSIVE Sections(_, _)
Sections(lines, acc) ==
    IF lines = <<>> THEN acc
    ELSE IF lines[1][1] = "File" THEN Sections(Tail(lines), Append(acc, <<lines[1][2], <<>>>>))
    ELSE IF lines[1][1] = "-" /\ acc # <<>>
         THEN Sections(Tail(lines),
                       [acc EXCEPT ![Len(acc)] = <<acc[Len(acc)][1], Append(acc[Len(acc)][2], lines[1][2])>>])
    ELSE Sections(Tail(lines), acc)

\* the documents in the order their completion was processed with at least
\* one match, read off the progress lines
RECURSIVE RecordedOrder(_)
RecordedOrder(lines) ==
    IF lines = <<>> THEN <<>>
    ELSE (IF lines[1][1] = "Processed" /\ lines[1][5] > 0
          THEN <<path_join(FolderName, lines[1][2])>> ELSE <<>>)
         \o RecordedOrder(Tail(lines))

\* a is b with some elements left out
RECURSIVE IsSubseq(_, _)
IsSubseq(a, b) ==
    IF a = <<>> THEN TRUE
    ELSE IF b = <<>> THEN FALSE
    ELSE IF a[1] = b[1] THEN IsSubseq(Tail(a), Tail(b))
    ELSE IsSubseq(a, Tail(b))

MatchedOf(path) ==
    LET k == CHOOSE m \in 1..Len(futures) : futures[m].path = path
    IN futures[k].result[1].matched

C7_Safety ==
    ReportEmitted =>
        /\ processed = total /\ Len(futures) = total
        /\ \A k \in 1..Len(futures) : Finished(k) /\ k \in yielded
        /\ LET secs == Sections(ReportLines, <<>>)
               order == RecordedOrder(stdout)
           IN /\ Len(secs) = Len(order)
              /\ {order[k] : k \in 1..Len(order)} =
                    {futures[k].path : k \in {m \in 1..Len(futures) :
                                                 futures[m].result[1].matched # <<>>}}
              /\ \A k \in 1..Len(secs) :
                    /\ secs[k][1] = order[k]
                    /\ secs[k][2] = MatchedOf(order[k])
                    /\ IsSubseq(secs[k][2], queries)

\* C7 as stated: the report comes only after every task is aggregated, has
\* the sections claimed, and every run that ends successfully has emitted it.
C7_ReportAlwaysEmitted ==
    /\ C7_Safety
    /\ (pc = "exit" /\ exit_code = Some(0)) => ReportEmitted

\* the steps main() and the workers still have to take before the report
\* is printed: four per path not yet submitted (submit, start, finish,
\* collect), fewer for a task under way, and the report itself
StepsLeft ==
    4 * (total - Len(futures))
    + 3 * Cardinality(Pending)
    + 2 * Cardinality(Running)
    + Cardinality({k \in 1..Len(futures) : Finished(k) /\ k \notin yielded})
    + (IF ReportEmitted THEN 0 ELSE 1)

Dispatching == pc \in {"submit", "as_completed"}

\* C7: the report is emitted only after every submitted task has
\* completed and been aggregated; it has one section for exactly each
\* document with a match, in the order recorded, each listing its matched
\* queries in declaration order; and once at least one document is left to
\* process it is eventually emitted: until then a step is always possible
\* and every step leaves fewer steps to take, so a run whose processes keep
\* being scheduled reaches the report.
C7_ReportAfterAllTasks ==
    /\ []C7_Safety
    /\ [](Dispatching => (CanStep /\ StepsLeft > 0))
    /\ [][Dispatching => StepsLeft' < StepsLeft]_vars
    /\ []((pc = "exit" /\ total > 0 /\ exit_code = Some(0)) => ReportEmitted)

\* C7 witness: a report of two sections
C7_Witness == pc = "exit" /\ ReportEmitted /\ Len(Sections(ReportLines, <<>>)) = 2

Excluded(name) ==
    /\ args.exclude # None /\ args.exclude # Some("")
    /\ re_search(args.exclude[1], name)

\* the folder's listing without the files the pattern excludes
ListingWithoutExcluded == SelectSeq(args.listing, LAMBDA n : ~Excluded(n))

\* C8: no task is submitted for a document whose name matches the
\* exclusion pattern, it is not in total nor in the report, and the
\* report's content is that of the same run over a folder without it.
C8_ExcludedNeverDispatched ==
    /\ \A k \in 1..Len(futures) : ~Excluded(basename(futures[k].path))
    /\ \A k \in 1..Len(results) : ~Excluded(basename(results[k][1]))
    /\ (pc \in {"submit", "as_completed"} \/ (pc = "exit" /\ exit_code = Some(0))) =>
          /\ pdfs = glob_pdf(FolderName, ListingWithoutExcluded)
          /\ total = Len(ListingWithoutExcluded)
          /\ processed <= Len(ListingWithoutExcluded)
    /\ (pc = "exit" /\ ReportEmitted) =>
          dict_items(results) = ReportContent([args EXCEPT !.listing = ListingWithoutExcluded])

\* C8 witness: a finished run with a report, over a folder holding an excluded file
C8_Witness ==
    /\ pc = "exit" /\ ReportEmitted /\ results # <<>>
    /\ \E k \in 1..Len(args.listing) : Excluded(args.listing[k])

\* C9: when no query is usable (none loaded, or every one dropped by
\* build_trees), no evaluation task is ever submitted.
C9_NoUsableQueriesIsFatal ==
    (pc \in {"glob", "submit", "as_completed", "exit"} /\ trees = <<>>) => futures = <<>>

\* no AND, no OR and no parenthesis anywhere in s
NoOperatorNoParen(s) ==
    /\ ~contains(s, "(") /\ ~contains(s, ")")
    /\ ~contains(upper(s), "AND") /\ ~contains(upper(s), "OR")

\* C10: an inline expression without operator or parenthesis compiles to
\* the single TermNode of the trimmed input, and a task reports a match
\* exactly for a text that contains the trimmed input, case-insensitively.
C10_InlinePhrase ==
    (/\ pc \in {"glob", "submit", "as_completed", "exit"}
     /\ args.folder_isdir /\ args.search # None
     /\ NoOperatorNoParen(args.search[1]))
    => /\ trees = <<[class |-> "TermNode", term |-> strip(args.search[1])]>>
       /\ \A k \in 1..Len(futures) :
             Finished(k) =>
                 ((futures[k].result[1].matched # <<>>)
                     <=> contains(lower(TextOf(futures[k].path)), lower(strip(args.search[1]))))

(***************************************************************************)
(* load_queries applied on its own to the content of a query file (-f).    *)
(***************************************************************************)
MaxLines == 3       \* lines of a generated plain-text query file

LinePool == {"FPGA", "(a OR", "b)", "\"neural codec\"", "42", "", " x y "}

StructuredFiles ==
    {"{\"queries\": [\"FPGA\", \"a AND b\"]}", "{\"queries\": [\"(a\"]}",
     "{\"queries\": []}", "{}"}

FileContents ==
    {join("\n", ls) : ls \in BoundedSeq(LinePool, MaxLines)} \cup StructuredFiles

LoadInit ==
    /\ MainIdle
    /\ CrawlIdle
    /\ input \in {Some(c) : c \in FileContents}
    /\ output = None

ApplyLoadQueries ==
    /\ input # None /\ output = None
    /\ output' = Some(load_queries(None, input))
    /\ UNCHANGED crawlVars
    /\ UNCHANGED <<input, args, pc, queries, trees, pdfs, total, results, processed,
                   futures, yielded, stdout, stderr, exit_code>>

LoadNext == ApplyLoadQueries

LoadSpec == LoadInit /\ [][LoadNext]_vars

\* the content is a structured document: a JSON object
IsStructured(content) == json_loads(strip(content)).kind = "dict"

\* the lines of the text that hold something besides whitespace, trimmed
NonEmptyLines(content) == stripped_lines(splitlines(content))

\* the trimmed text starts with '(' and ends with ')'
Parenthesized(content) ==
    startswith(strip(content), "(") /\ endswith(strip(content), ")")

\* C11: for file input load_queries returns the `queries` list of a
\* structured document verbatim; for plain text it never crashes, and
\* returns one query (the non-empty lines joined by single spaces) when
\* there is more than one non-empty line and the trimmed text starts with
\* '(' and ends with ')', otherwise one query per non-empty line in order.
C11_LoadQueriesFileContract ==
    output # None =>
        LET content == input[1]
            r == output[1]
        IN IF IsStructured(content)
           THEN LET data == json_loads(strip(content)) IN
                (data.has_queries /\ data.queries # <<>>)
                    => r = [kind |-> "return", queries |-> data.queries]
           ELSE /\ r.kind # "raise"
                /\ LET lines == NonEmptyLines(content) IN
                   lines # <<>> =>
                       r = [kind |-> "return",
                            queries |-> IF Len(lines) > 1 /\ Parenthesized(content)
                                        THEN <<join(" ", lines)>>
                                        ELSE lines]

\* C11 witness: load_queries has returned for a plain-text file of two lines
\* that is one parenthesized expression
C11_Witness ==
    /\ output # None /\ ~IsStructured(input[1])
    /\ Len(NonEmptyLines(input[1])) = 2 /\ Parenthesized(input[1])
    /\ output[1].kind = "return" /\ Len(output[1].queries) = 1

(***************************************************************************)
(* One query compiled (the try block of build_trees) and its tree          *)
(* evaluated on a text (search_in_pdf), for expressions built from terms,  *)
(* operators and one pair of parentheses.                                  *)
(***************************************************************************)
MaxOperands == 4    \* operands of a generated expression

TermPool == {"x", "y", "\"y z\""}
TextPool == {"X-ray", "y z", "x and y"}
Operators == {"AND", "OR"}

\* the tokens of the expression: the operands with the operators between
\* them, the first two or the last two operands in parentheses when form
\* says so
RECURSIVE interleave(_, _)
interleave(operands, ops) ==
    IF ops = <<>> THEN operands
    ELSE <<operands[1], ops[1]>> \o interleave(Tail(operands), Tail(ops))

render(operands, ops, form) ==
    LET n == Len(operands) IN
    CASE form = "group_first" ->
           <<"(", operands[1], ops[1], operands[2], ")">>
           \o (IF n > 2 THEN <<ops[2]>> \o interleave(SubSeq(operands, 3, n), SubSeq(ops, 3, n - 1))
               ELSE <<>>)
      [] form = "group_last" ->
           (IF n > 2 THEN interleave(SubSeq(operands, 1, n - 2), SubSeq(ops, 1, n - 3))
                          \o <<ops[n - 2]>>
            ELSE <<>>)
           \o <<"(", operands[n - 1], ops[n - 1], operands[n], ")">>
      [] OTHER -> interleave(operands, ops)

Expressions ==
    UNION {{[operands |-> os, ops |-> ps, form |-> f,
             expr |-> join(" ", render(os, ps, f))] :
               os \in [1..n -> TermPool], ps \in [1..(n - 1) -> Operators],
               f \in (IF n >= 2 THEN {"plain", "group_first", "group_last"} ELSE {"plain"})} :
           n \in 1..MaxOperands}

ExprInit ==
    /\ MainIdle
    /\ CrawlIdle
    /\ input \in {Some([query |-> e, text |-> t]) : e \in Expressions, t \in TextPool}
    /\ output = None

\* tokenize, parse, then node.evaluate(text) when the query compiled
ApplyCompileEvaluate ==
    /\ input # None /\ output = None
    /\ LET r == compile(input[1].query.expr) IN
       output' = Some([compiled |-> r,
                       value |-> IF r.ok THEN evaluate(r.node, input[1].text) ELSE FALSE])
    /\ UNCHANGED crawlVars
    /\ UNCHANGED <<input, args, pc, queries, trees, pdfs, total, results, processed,
                   futures, yielded, stdout, stderr, exit_code>>

ExprNext == ApplyCompileEvaluate

ExprSpec == ExprInit /\ [][ExprNext]_vars

\* the term occurs in the text, letter case apart
Matches(term, text) == contains(lower(text), lower(strip_char(term, "\"")))

\* operands i..j are a maximal run joined by AND: nothing but AND inside,
\* an OR or the end of the expression on either side
IsAndRun(ops, n, i, j) ==
    /\ i <= j
    /\ (i = 1 \/ ops[i - 1] = "OR")
    /\ (j = n \/ ops[j] = "OR")
    /\ \A k \in i..(j - 1) : ops[k] = "AND"

\* the OR over the maximal AND-runs of the truth values bs joined by ops
OrOverAndRuns(bs, ops) ==
    \E i, j \in 1..Len(bs) : IsAndRun(ops, Len(bs), i, j) /\ \A k \in i..j : bs[k]

Combine(op, p, q) == IF op = "AND" THEN p /\ q ELSE p \/ q

\* the value the expression must have on the text: the parenthesized pair
\* is one operand, and the rest is the OR over the maximal AND-runs
Expected(q, text) ==
    LET n == Len(q.operands)
        bs == [k \in 1..n |-> Matches(q.operands[k], text)]
    IN CASE q.form = "group_first" ->
              OrOverAndRuns(<<Combine(q.ops[1], bs[1], bs[2])>> \o SubSeq(bs, 3, n),
                            SubSeq(q.ops, 2, n - 1))
         [] q.form = "group_last" ->
              OrOverAndRuns(SubSeq(bs, 1, n - 2) \o <<Combine(q.ops[n - 1], bs[n - 1], bs[n])>>,
                            SubSeq(q.ops, 1, n - 2))
         [] OTHER -> OrOverAndRuns(bs, q.ops)

\* C12: AND binds tighter than OR: "a OR b AND c" is true on a text iff a
\* matches or (b and c match); an expression without parentheses is the OR
\* over its maximal AND-runs, and a parenthesized pair is evaluated first,
\* as one operand.
C12_AndBindsTighterThanOr ==
    output # None =>
        /\ output[1].compiled.ok
        /\ output[1].value = Expected(input[1].query, input[1].text)
        /\ (input[1].query.form = "plain" /\ input[1].query.ops = <<"OR", "AND">>) =>
              LET q == input[1].query
                  t == input[1].text
              IN output[1].value <=>
                    (Matches(q.operands[1], t)
                     \/ (Matches(q.operands[2], t) /\ Matches(q.operands[3], t)))

\* C12 witness: "x OR y AND "y z"" evaluated true on a text where the first
\* operand alone matches, and "(x OR y) AND "y z"" evaluated false on it
C12_Witness ==
    /\ output # None
    /\ input[1].query.operands = <<"x", "y", "\"y z\"">>
    /\ input[1].query.ops = <<"OR", "AND">>
    /\ input[1].text = "X-ray"
    /\ \/ input[1].query.form = "plain" /\ output[1].value
       \/ input[1].query.form = "group_first" /\ ~output[1].value

\* every OpNode of the tree has an operator and at least two children, and
\* every branch ends in a TermNode
RECURSIVE WellFormed(_)
WellFormed(node) ==
    IF node.class = "TermNode" THEN DOMAIN node = {"class", "term"}
    ELSE /\ node.class = "OpNode"
         /\ node.op \in {"AND", "OR"}
         /\ Len(node.children) >= 2
         /\ \A k \in 1..Len(node.children) : WellFormed(node.children[k])

\* the tokens are operands (words or phrases) with one operator between
\* each two, and no parenthesis
IsOperandSequence(tokens) ==
    /\ Len(tokens) % 2 = 1
    /\ \A k \in 1..Len(tokens) :
          IF k % 2 = 1 THEN IsTermToken(tokens[k]) ELSE tokens[k] \in {"AND", "OR"}

\* the operands of an operand sequence, cut at each OR
RECURSIVE SplitAtOr(_, _, _)
SplitAtOr(tokens, run, acc) ==
    IF tokens = <<>> THEN Append(acc, run)
    ELSE IF tokens[1] = "OR" THEN SplitAtOr(Tail(tokens), <<>>, Append(acc, run))
    ELSE IF tokens[1] = "AND" THEN SplitAtOr(Tail(tokens), run, acc)
    ELSE SplitAtOr(Tail(tokens), Append(run, tokens[1]), acc)

\* one node per level: the operand itself when it is alone, else one
\* OpNode holding all of them in order
LevelNode(op, nodes) == IF Len(nodes) = 1 THEN nodes[1] ELSE OpNode(op, nodes)

\* the tree of an operand sequence: each run joined by AND is one level,
\* and the runs are the operands of the OR level
FlatTree(tokens) ==
    LET runs == SplitAtOr(tokens, <<>>, <<>>) IN
    LevelNode("OR", [r \in 1..Len(runs) |->
                        LevelNode("AND", [k \in 1..Len(runs[r]) |-> TermNode(runs[r][k])])])

\* C13: a tree returned by Parser.parse is one node whose every OpNode has
\* at least two children and whose leaves are TermNodes; n >= 2 operands
\* joined by the same operator, without parentheses, become one OpNode with
\* exactly those n children in order, and a level with one operand is that
\* operand itself, with no node around it.
C13_FlatTrees ==
    output # None =>
        /\ output[1].ok => WellFormed(output[1].node)
        /\ IsOperandSequence(input[1]) =>
              /\ output[1].ok
              /\ output[1].node = FlatTree(input[1])
        /\ (Len(input[1]) = 3 /\ input[1][1] = "(" /\ input[1][3] = ")" /\ output[1].ok) =>
              output[1].node = TermNode(input[1][2])

\* C13 witness: three operands joined by AND parsed into one node of three children
C13_Witness ==
    /\ output # None /\ output[1].ok
    /\ Len(input[1]) = 5 /\ IsOperandSequence(input[1])
    /\ input[1][2] = "AND" /\ input[1][4] = "AND"
    /\ output[1].node.op = "AND" /\ Len(output[1].node.children) = 3

(***************************************************************************)
(* tokenize applied on its own to an expression, and build_trees applied   *)
(* to the batch of that expression followed by the query "x".              *)
(***************************************************************************)
MaxPieces == 4      \* pieces of a generated expression

PiecePool == {"AND", "or", "x", "1", "(", ")", " ", "\""}

TokenizeInputs ==
    {concat(ps) : ps \in BoundedSeq(PiecePool, MaxPieces)}
    \cup {"ANDROID or ORANGE", "x \"(a AND b)\" y"}

TokenizeInit ==
    /\ CrawlIdle
    /\ pc = "build_trees"
    /\ args = Args(FALSE, <<>>, [search |-> None, search_file |-> None], None, 1)
    /\ trees = <<>> /\ pdfs = <<>> /\ total = 0
    /\ results = <<>> /\ processed = 0 /\ futures = <<>> /\ yielded = {}
    /\ stdout = <<>> /\ stderr = <<>> /\ exit_code = None
    /\ \E e \in TokenizeInputs :
          /\ input = Some(e)
          /\ queries = <<e, "x">>
    /\ output = None

ApplyTokenize ==
    /\ input # None /\ output = None
    /\ output' = Some(tokenize(input[1]))
    /\ UNCHANGED crawlVars
    /\ UNCHANGED <<input, args, pc, queries, trees, pdfs, total, results, processed,
                   futures, yielded, stdout, stderr, exit_code>>

TokenizeNext == ApplyTokenize \/ BuildTrees

TokenizeSpec == TokenizeInit /\ [][TokenizeNext]_vars

\* the maximal runs of characters that are neither whitespace nor a
\* parenthesis, and the parentheses, in the order of the text
RECURSIVE Chunks(_, _, _)
Chunks(s, run, acc) ==
    LET flushed == IF run = "" THEN acc ELSE Append(acc, run) IN
    IF s = "" THEN flushed
    ELSE IF isspace(CharAt(s, 0)) THEN Chunks(Tail(s), "", flushed)
    ELSE IF CharAt(s, 0) \in {"(", ")"} THEN Chunks(Tail(s), "", Append(flushed, CharAt(s, 0)))
    ELSE Chunks(Tail(s), run \o CharAt(s, 0), acc)

\* the run begins with the word w, in either case, and no letter follows it
BeginsWithWord(run, w) ==
    /\ upper(Slice(run, 0, Len(w))) = w
    /\ (Len(run) = Len(w) \/ CharAt(run, Len(w)) \notin (LowerSet \cup UpperSet))

\* the tokens of one run: the operator and what follows it when the run
\* begins with the word AND or OR, else the run as one bare word
RunTokens(run) ==
    LET w == IF BeginsWithWord(run, "AND") THEN "AND"
             ELSE IF BeginsWithWord(run, "OR") THEN "OR" ELSE ""
    IN IF w = "" THEN <<run>>
       ELSE IF Len(run) = Len(w) THEN <<w>>
       ELSE <<w, Slice(run, Len(w), Len(run))>>

RECURSIVE TokensOfChunks(_)
TokensOfChunks(chunks) ==
    IF chunks = <<>> THEN <<>> ELSE RunTokens(chunks[1]) \o TokensOfChunks(Tail(chunks))

\* C14: on an expression without double quotes tokenize emits the operator
\* AND (OR) exactly for the word AND (OR), in either case, that no letter
\* follows; a word that only begins with those letters is one bare-word
\* token; and every '(' and ')' is a token of its own.
C14_OperatorWords ==
    (output # None /\ ~contains(input[1], "\"")) =>
        /\ output[1].ok
        /\ output[1].tokens = TokensOfChunks(Chunks(input[1], "", <<>>))
        /\ Cardinality({k \in 1..Len(output[1].tokens) : output[1].tokens[k] \in {"(", ")"}})
              = Cardinality({i \in 0..(Len(input[1]) - 1) : CharAt(input[1], i) \in {"(", ")"}})

\* C14 witness: ANDROID and ORANGE kept whole around an operator
C14_Witness ==
    /\ output # None
    /\ input[1] = "ANDROID or ORANGE"
    /\ output[1] = [ok |-> TRUE, tokens |-> <<"ANDROID", "OR", "ORANGE">>]

\* the indices of the double quotes of s, in order
QuoteIndices(s) ==
    LET Q == {i \in 0..(Len(s) - 1) : CharAt(s, i) = "\""} IN
    [k \in 1..Cardinality(Q) |->
        CHOOSE i \in Q : Cardinality({m \in Q : m < i}) = k - 1]

\* the double-quoted spans of s, quotes included: the quotes pair up from
\* the left, the first with the second, the third with the fourth, ...
QuotedSpans(s) ==
    LET qs == QuoteIndices(s) IN
    [k \in 1..(Len(qs) \div 2) |-> Slice(s, qs[2 * k - 1], qs[2 * k] + 1)]

\* a double quote of s opens a phrase that is never closed
UnterminatedQuote(s) == Len(QuoteIndices(s)) % 2 = 1

\* the tokens that hold a double quote, in order
QuoteTokens(tokens) == SelectSeq(tokens, LAMBDA t : contains(t, "\""))

\* C15: tokenize fails whenever a quoted phrase of the expression has no
\* closing double quote; otherwise every double-quoted span is exactly one
\* token, quotes included, whatever it contains; and the failure drops that
\* query only: the other query of the batch is compiled.
C15_QuotedSpans ==
    /\ output # None =>
          IF UnterminatedQuote(input[1])
          THEN ~output[1].ok
          ELSE /\ output[1].ok
               /\ QuoteTokens(output[1].tokens) = QuotedSpans(input[1])
    /\ (pc = "glob" /\ ~tokenize(queries[1]).ok) =>
          /\ trees = <<TermNode("x")>>
          /\ stderr = <<<<"Error parsing", queries[1], "Unmatched quote in expression">>>>

\* C15 witness: a phrase holding parentheses and AND tokenized as one token,
\* and a batch whose first query has an unterminated phrase
C15_Witness ==
    \/ /\ output # None
       /\ input[1] = "x \"(a AND b)\" y"
       /\ output[1] = [ok |-> TRUE, tokens |-> <<"x", "\"(a AND b)\"", "y">>]
    \/ /\ pc = "glob" /\ ~tokenize(queries[1]).ok /\ Len(trees) = 1

(***************************************************************************)
(* node.evaluate(text) applied on its own to a tree and a text.  The trees *)
(* are built directly from the two classes, so an OpNode may have no child *)
(* or one child.                                                           *)
(***************************************************************************)
MaxChildren == 2    \* children of the root of a generated tree
MaxInner    == 1    \* children of an OpNode below the root

EvalTerms == {"b C", "x."}
EvalTexts == {"A B c", "X.y", "xy b  c"}

TermNodes == {TermNode(t) : t \in EvalTerms}

InnerTrees ==
    TermNodes \cup {OpNode(op, cs) : op \in Operators, cs \in BoundedSeq(TermNodes, MaxInner)}

Trees ==
    InnerTrees \cup {OpNode(op, cs) : op \in Operators, cs \in BoundedSeq(InnerTrees, MaxChildren)}

EvalInit ==
    /\ MainIdle
    /\ CrawlIdle
    /\ input \in {Some([node |-> n, text |-> t]) : n \in Trees, t \in EvalTexts}
    /\ output = None

ApplyEvaluate ==
    /\ input # None /\ output = None
    /\ output' = Some(evaluate(input[1].node, input[1].text))
    /\ UNCHANGED crawlVars
    /\ UNCHANGED <<input, args, pc, queries, trees, pdfs, total, results, processed,
                   futures, yielded, stdout, stderr, exit_code>>

EvalNext == ApplyEvaluate

EvalSpec == EvalInit /\ [][EvalNext]_vars

\* the reference boolean semantics of a tree on a text
RECURSIVE Holds(_, _)
Holds(node, text) ==
    CASE node.class = "TermNode" -> contains(lower(text), lower(node.term))
      [] node.class = "OpNode" /\ node.op = "AND" ->
             \A k \in 1..Len(node.children) : Holds(node.children[k], text)
      [] node.class = "OpNode" /\ node.op = "OR" ->
             \E k \in 1..Len(node.children) : Holds(node.children[k], text)

C16_Inv == output # None => output[1] = Holds(input[1].node, input[1].text)

C16_Step == output' # output => input' = input

\* C16: evaluate agrees with the reference boolean semantics on every tree
\* and text (a TermNode is true iff its phrase is in the text as a
\* contiguous substring, letter case apart; an AND node iff every child is
\* true; an OR node iff at least one child is true; also with no child and
\* with one child), and evaluating leaves the tree and the text as they were.
C16_EvaluateIsReferenceSemantics == []C16_Inv /\ [][C16_Step]_vars

\* C16 witness: an AND node without children evaluated true next to a term
\* that is false, under an OR
C16_Witness ==
    /\ output = Some(TRUE)
    /\ input[1].node = OpNode("OR", <<TermNode("x."), OpNode("AND", <<>>)>>)
    /\ input[1].text = "xy b  c"

\* main() has enumerated the documents: it is past lines 179-186 and did
\* not end before them
Enumerated ==
    \/ pc \in {"submit", "as_completed"}
    \/ (pc = "exit" /\ exit_code # Some(1))

\* the documents that remain after enumeration and exclusion
Remaining == exclude_filter(glob_pdf(FolderName, args.listing), args.exclude)

\* C17: when no document remains after enumeration and exclusion, the run
\* ends at once with exit status 0, the informational message as its only
\* output and an empty report; no task is submitted and no progress line,
\* hence no percentage, is computed.
C17_NoDocumentsEndsQuietly ==
    (Enumerated /\ Remaining = <<>>) =>
        /\ pc = "exit" /\ exit_code = Some(0)
        /\ stdout = <<<<"No PDF files to process.">>>>
        /\ total = 0 /\ futures = <<>> /\ yielded = {}
        /\ results = <<>> /\ processed = 0

\* C17 witness: a run over a folder whose only files are excluded, ended
C17_Witness ==
    /\ Enumerated /\ Remaining = <<>> /\ pc = "exit"
    /\ args.listing # <<>> /\ args.exclude # None

(***************************************************************************)
(* webcrawler.py and webcrawler-v2.py.  URLs are strings; urlparse,        *)
(* geturl and urljoin are modelled for URLs of the shape                   *)
(* scheme://netloc/path?query#fragment and for references that are         *)
(* absolute, start with '/', are relative paths without dot segments, or   *)
(* hold only a query or a fragment.                                        *)
(***************************************************************************)
\* the first index >= start of s holding one of chars, Len(s) if none
find_any(s, chars, start) ==
    IF \E k \in start..(Len(s) - 1) : CharAt(s, k) \in chars
    THEN CHOOSE k \in start..(Len(s) - 1) :
            /\ CharAt(s, k) \in chars
            /\ \A m \in start..(k - 1) : CharAt(s, m) \notin chars
    ELSE Len(s)

\* s.rfind(c): the last index holding c, else -1
rfind(s, c) ==
    IF \E k \in 0..(Len(s) - 1) : CharAt(s, k) = c
    THEN CHOOSE k \in 0..(Len(s) - 1) :
            /\ CharAt(s, k) = c
            /\ \A m \in (k + 1)..(Len(s) - 1) : CharAt(s, m) # c
    ELSE -1

\* the length of the scheme of url (letters before the first ':'), 0 if none
scheme_len(url) ==
    LET k == find(url, ":", 0) IN
    IF k > 0 /\ \A m \in 0..(k - 1) : isalpha(CharAt(url, m)) THEN k ELSE 0

\* the schemes that urllib resolves references against and that take a netloc
UsesNetloc == {"http", "https", "ftp", ""}

\* urllib.parse.urlparse(url) (params left in the path)
urlparse(url) ==
    LET split_query(scheme, netloc, fragment, rest3, q) ==
            [scheme |-> scheme, netloc |-> netloc, path |-> Slice(rest3, 0, q),
             query |-> Slice(rest3, q + 1, Len(rest3)), fragment |-> fragment]
        split_fragment(scheme, netloc, rest2, h) ==
            split_query(scheme, netloc, Slice(rest2, h + 1, Len(rest2)),
                        Slice(rest2, 0, h), find_any(Slice(rest2, 0, h), {"?"}, 0))
        \* n_end is 0 when rest does not start with "//"
        split_netloc(scheme, rest, n_end) ==
            split_fragment(scheme, IF n_end >= 2 THEN Slice(rest, 2, n_end) ELSE "",
                           Slice(rest, n_end, Len(rest)),
                           find_any(Slice(rest, n_end, Len(rest)), {"#"}, 0))
        split_scheme(scheme, rest) ==
            split_netloc(scheme, rest,
                         IF startswith(rest, "//")
                         THEN find_any(rest, {"/", "?", "#"}, 2) ELSE 0)
        after_scheme(k) ==
            split_scheme(lower(Slice(url, 0, k)),
                         IF k > 0 THEN Slice(url, k + 1, Len(url)) ELSE url)
    IN after_scheme(scheme_len(url))

\* ParseResult.geturl(): urlunparse of the parts
geturl(p) ==
    LET path == IF p.netloc # "" /\ p.path # "" /\ ~startswith(p.path, "/")
                THEN "/" \o p.path ELSE p.path
        hier == IF p.netloc # "" \/ (p.scheme # "" /\ p.scheme \in UsesNetloc /\ ~startswith(path, "//"))
                THEN "//" \o p.netloc \o path ELSE path
    IN (IF p.scheme # "" THEN p.scheme \o ":" ELSE "") \o hier
       \o (IF p.query # "" THEN "?" \o p.query ELSE "")
       \o (IF p.fragment # "" THEN "#" \o p.fragment ELSE "")

\* urlparse(url)._replace(fragment='').geturl()
remove_fragment(url) == geturl([urlparse(url) EXCEPT !.fragment = ""])

\* urllib.parse.urljoin(base, url), for references without dot segments
urljoin(base, url) ==
    IF url = "" THEN base
    ELSE IF base = "" THEN url
    ELSE LET relative(b, u, dir) ==
                 geturl([u EXCEPT !.netloc = b.netloc,
                                  !.path = (IF dir = "" THEN "/" ELSE dir) \o u.path])
             resolve(b, u) ==
                 IF u.scheme # b.scheme \/ u.scheme \notin UsesNetloc THEN url
                 ELSE IF u.netloc # "" THEN geturl(u)
                 ELSE IF u.path = ""
                      THEN geturl([u EXCEPT !.netloc = b.netloc, !.path = b.path,
                                            !.query = IF u.query = "" THEN b.query ELSE u.query])
                 ELSE IF startswith(u.path, "/")
                      THEN geturl([u EXCEPT !.netloc = b.netloc])
                 ELSE relative(b, u, Slice(b.path, 0, rfind(b.path, "/") + 1))
             with_scheme(b, u0) ==
                 resolve(b, IF u0.scheme = "" THEN [u0 EXCEPT !.scheme = b.scheme] ELSE u0)
         IN with_scheme(urlparse(base), urlparse(url))

\* parse_qs(query): the values of key, blank values dropped
RECURSIVE split_at(_, _, _, _)
split_at(s, sep, cur, acc) ==
    IF s = "" THEN Append(acc, cur)
    ELSE IF CharAt(s, 0) = sep THEN split_at(Tail(s), sep, "", Append(acc, cur))
    ELSE split_at(Tail(s), sep, cur \o CharAt(s, 0), acc)

parse_qs_get(query, key) ==
    LET values(mine) ==
            [k \in 1..Len(mine) |-> Slice(mine[k], Len(key) + 1, Len(mine[k]))]
    IN values(SelectSeq(split_at(query, "&", "", <<>>),
                        LAMBDA kv : /\ startswith(kv, key \o "=")
                                    /\ Len(kv) > Len(key) + 1))

\* is_allowed_domain(url, domains)
is_allowed_domain(url, domains) ==
    \E k \in 1..Len(domains) : domains[k] = urlparse(url).netloc

\* webcrawler-v2.py is_pdf_link(url)
is_pdf_link(url) ==
    LET test(parsed) ==
            \/ endswith(lower(parsed.path), ".pdf")
            \/ (parsed.path = "/pdf" /\ parse_qs_get(parsed.query, "id") # <<>>)
            \/ (parsed.path = "/attachment" /\ parse_qs_get(parsed.query, "id") # <<>>)
    IN test(urlparse(url))

\* webcrawler-v2.py get_pdf_filename(url)
get_pdf_filename(url) ==
    LET name_of(path, ids, names) ==
            IF endswith(lower(path), ".pdf") THEN basename(path)
            ELSE IF names # <<>> /\ endswith(lower(names[1]), ".pdf") THEN names[1]
            ELSE IF ids # <<>> /\ ids[1] # "" THEN ids[1] \o ".pdf"
            ELSE IF basename(path) # "" THEN basename(path)
            ELSE "download.pdf"
        of_parsed(parsed) ==
            name_of(parsed.path, parse_qs_get(parsed.query, "id"),
                    parse_qs_get(parsed.query, "name"))
    IN of_parsed(urlparse(url))

\* the name of the file download_pdf writes: line 74 of webcrawler.py,
\* get_pdf_filename in webcrawler-v2.py
pdf_filename(version, url) ==
    IF version = "v1" THEN basename(urlparse(url).path) ELSE get_pdf_filename(url)

\* the test that makes a link a PDF to download: line 141 of webcrawler.py,
\* is_pdf_link in webcrawler-v2.py
links_to_pdf(version, url) ==
    IF version = "v1" THEN endswith(lower(url), ".pdf") ELSE is_pdf_link(url)

(***************************************************************************)
(* download_pdf.  The outcome of one attempt (one pass through the try     *)
(* block) is an input: "ok"; "request_error", requests.get or              *)
(* raise_for_status raises; "open_error", open(filepath, 'wb') raises;     *)
(* "write_error", the copy raises after the file was opened; and           *)
(* "trace_error", log_trace raises after the file was written (v2, with    *)
(* --trace).  st holds the output directory and the requests made so far.  *)
(***************************************************************************)
\* os.path.exists(filepath): a file of that name was written, or the name is
\* empty and the path is the output directory itself
path_exists(fs, filename) == filename = "" \/ filename \in dict_keys(fs)

\* log_warning(output_dir, url, error)
log_warning(ws, url) == Append(ws, <<"Failed", url>>)

\* what the attempt leaves of the file
file_after(fs, filename, url, outcome) ==
    CASE outcome \in {"ok", "trace_error"} -> dict_set(fs, filename, <<url, "complete">>)
      [] outcome = "write_error"           -> dict_set(fs, filename, <<url, "partial">>)
      [] OTHER                             -> fs

\* the outcome of the try block: a directory cannot be opened for writing,
\* and log_trace is only called by v2 with --trace
effective(version, trace, filename, outcome) ==
    IF filename = "" /\ outcome \in {"ok", "write_error", "trace_error"} THEN "open_error"
    ELSE IF outcome = "trace_error" /\ ~(version = "v2" /\ trace) THEN "ok"
    ELSE outcome

\* the attempts of download_pdf that log a warning at the first failure
RECURSIVE download_attempts_warn_each(_, _, _, _, _, _, _)
download_attempts_warn_each(version, attempt, url, trace, path_list, outcomes, st) ==
    IF attempt > 2
    THEN st
    ELSE LET after(o, requested) ==
                 IF o = "ok"
                 THEN IF version = "v2" /\ trace
                      THEN [requested EXCEPT !.traces = Append(@, Append(path_list, url))]
                      ELSE requested
                 ELSE download_attempts_warn_each(version, attempt + 1, url, trace, path_list, outcomes,
                     [requested EXCEPT !.warnings = log_warning(@, url)])
             try(filename, o) ==
                 after(o, [st EXCEPT !.fetched = Append(@, [url |-> url, kind |-> "pdf"]),
                                     !.files = file_after(@, filename, url, o)])
             named(filename) ==
                 try(filename, effective(version, trace, filename, outcomes[attempt]))
         IN named(pdf_filename(version, url))

\* the loop "for attempt in range(1, 3)" of download_pdf from attempt on,
\* and in v2 the log_warning after the loop
RECURSIVE download_attempts(_, _, _, _, _, _, _)
download_attempts(version, attempt, url, trace, path_list, outcomes, st) ==
    IF attempt > 2
    THEN IF version = "v2" THEN [st EXCEPT !.warnings = log_warning(@, url)] ELSE st
    ELSE LET after(o, requested) ==
                 IF o = "ok"
                 THEN IF version = "v2" /\ trace
                      THEN [requested EXCEPT !.traces = Append(@, Append(path_list, url))]
                      ELSE requested
                 ELSE download_attempts(version, attempt + 1, url, trace, path_list, outcomes,
                     IF version = "v1" /\ attempt = 2
                     THEN [requested EXCEPT !.warnings = log_warning(@, url)]
                     ELSE requested)
             try(filename, o) ==
                 after(o, [st EXCEPT !.fetched = Append(@, [url |-> url, kind |-> "pdf"]),
                                     !.files = file_after(@, filename, url, o)])
             named(filename) ==
                 try(filename, effective(version, trace, filename, outcomes[attempt]))
         IN named(pdf_filename(version, url))

\* download_pdf(url, output_dir, overwrite) of webcrawler.py and
\* download_pdf(url, output_dir, overwrite, trace, path_list) of v2
download_pdf(version, url, overwrite, trace, path_list, outcomes, st) ==
    IF path_exists(st.files, pdf_filename(version, url)) /\ ~overwrite THEN st
    ELSE download_attempts(version, 1, url, trace, path_list, outcomes, st)

(***************************************************************************)
(* crawl().  An entry of queue is (url, depth) in webcrawler.py and        *)
(* (url, depth, path_list) in webcrawler-v2.py.  What a request returns is *)
(* chosen when the request is made: an error, a content type, and for an   *)
(* HTML page the href of each of its links.                                *)
(***************************************************************************)
MaxDepth == 2       \* largest --max-depth

CrawlDomains == <<"a.org">>
StartUrls    == {"http://a.org/", "http://b.com/q"}

\* the hrefs of the pages served: no link; a page and a PDF; a link back to
\* the start and a page; the same page twice, once with a fragment; a link
\* the pattern excludes and a link to another domain; a PDF and an
\* absolute link into the allowed domain; a second page and a download
\* link without the .pdf suffix; three pages, the start among them
LinkLists ==
    {<<>>,
     <<"/p#top", "/x.pdf">>,
     <<"/", "/p">>,
     <<"/p", "/p#top">>,
     <<"/login", "http://b.com/q">>,
     <<"/x.pdf", "http://a.org/p">>,
     <<"/q", "/pdf?id=7">>,
     <<"/q", "/p", "/">>}
UrlExcludes  == {None, Some("login")}
PdfServers   == {<<"ok", "ok">>, <<"request_error", "write_error">>}

\* the command lines tried; webcrawler.py has no --trace, and v2 is run with it
CrawlArgs ==
    {[version |-> v, start_url |-> s, domains |-> CrawlDomains, exclude |-> e,
      max_depth |-> d, overwrite |-> o, trace |-> (v = "v2"), pdf_server |-> p] :
        v \in {"v1", "v2"}, s \in StartUrls, e \in UrlExcludes, d \in 0..MaxDepth,
        o \in BOOLEAN, p \in PdfServers}

\* an entry that keeps the depth of the page the link was found on
entry_same_depth(version, url, depth, path_list) ==
    IF version = "v1" THEN <<url, IF depth > 0 THEN depth - 1 ELSE 0>>
    ELSE <<url, IF depth > 0 THEN depth - 1 ELSE 0, path_list>>

entry(version, url, depth, path_list) ==
    IF version = "v1" THEN <<url, depth>> ELSE <<url, depth, path_list>>

\* the path_list of an entry (v2); webcrawler.py keeps none
path_list_of(e) == IF Len(e) = 3 THEN e[3] ELSE <<>>

CrawlInit ==
    /\ MainIdle
    /\ NoCall
    /\ cargs \in {Some(a) : a \in CrawlArgs}
    /\ cpc = "crawl"
    /\ visited = {}
    /\ queue = <<entry(cargs[1].version, cargs[1].start_url, 0, <<cargs[1].start_url>>)>>
    /\ files = <<>> /\ warnings = <<>> /\ traces = <<>>
    /\ fetched = <<>> /\ enqueued = <<>> /\ dequeued = <<>>

\* exclude_regex and exclude_regex.search(normalized)
excluded_url(exclude, url) ==
    exclude # None /\ exclude # Some("") /\ re_search(exclude[1], url)

\* a loop over the links that applies neither the domain test nor the
\* exclusion pattern
RECURSIVE process_links_unfiltered(_, _, _, _, _, _, _)
process_links_unfiltered(a, hrefs, url, depth, path_list, vis, st) ==
    IF hrefs = <<>> THEN st
    ELSE LET append(e) == [st EXCEPT !.queue = Append(@, e), !.enqueued = Append(@, e)]
             handle(normalized) ==
            IF links_to_pdf(a.version, normalized)
            THEN IF a.version = "v1" /\ normalized \in vis THEN st
                 ELSE download_pdf(a.version, normalized, a.overwrite, a.trace,
                                   path_list, a.pdf_server, st)
            ELSE IF a.version = "v1" /\ normalized \in vis THEN st
            ELSE append(entry(a.version, normalized, depth + 1,
                              Append(path_list, normalized)))
         IN process_links_unfiltered(a, Tail(hrefs), url, depth, path_list, vis,
                handle(remove_fragment(urljoin(url, hrefs[1]))))

\* the loop over the links of a page: lines 130-146 of webcrawler.py,
\* lines 169-179 of webcrawler-v2.py
RECURSIVE process_links(_, _, _, _, _, _, _)
process_links(a, hrefs, url, depth, path_list, vis, st) ==
    IF hrefs = <<>> THEN st
    ELSE LET append(e) == [st EXCEPT !.queue = Append(@, e), !.enqueued = Append(@, e)]
             handle(normalized) ==
            IF ~is_allowed_domain(normalized, a.domains) THEN st
            ELSE IF excluded_url(a.exclude, normalized) THEN st
            ELSE IF links_to_pdf(a.version, normalized)
            THEN IF a.version = "v1" /\ normalized \in vis THEN st
                 ELSE download_pdf(a.version, normalized, a.overwrite, a.trace,
                                   path_list, a.pdf_server, st)
            ELSE IF a.version = "v1" /\ normalized \in vis THEN st
            ELSE append(entry(a.version, normalized, depth + 1,
                              Append(path_list, normalized)))
         IN process_links(a, Tail(hrefs), url, depth, path_list, vis,
                handle(remove_fragment(urljoin(url, hrefs[1]))))

\* the part of the state the body of the loop works on, the head of the
\* queue popped
Popped ==
    [queue |-> Tail(queue), enqueued |-> enqueued, files |-> files,
     warnings |-> warnings, traces |-> traces, fetched |-> fetched]

Store(st) ==
    /\ queue' = st.queue /\ enqueued' = st.enqueued /\ files' = st.files
    /\ warnings' = st.warnings /\ traces' = st.traces /\ fetched' = st.fetched

PageRequest(url, depth) == [url |-> url, kind |-> "page", depth |-> depth]

\* a depth test that lets every entry through
too_deep_never(depth, max_depth) == FALSE

\* depth > max_depth
too_deep(depth, max_depth) == depth > max_depth

\* a test of the head of the queue that forgets the visited set
Skipped_depth_only(e) == too_deep(e[2], cargs[1].max_depth)

\* the entry at the head of queue is dropped by "if url in visited or depth >
\* max_depth: continue"
Skipped(e) == e[1] \in visited \/ too_deep(e[2], cargs[1].max_depth)

Looping == cpc = "crawl" /\ queue # <<>>

\* lines 106-108 / 156-158: the entry popped is skipped
SkipEntry ==
    /\ Looping /\ Skipped(queue[1])
    /\ queue' = Tail(queue)
    /\ dequeued' = Append(dequeued, queue[1])
    /\ UNCHANGED <<cargs, cpc, visited, files, warnings, traces, fetched, enqueued>>
    /\ UNCHANGED <<mainVars, callVars>>

\* lines 109-118 / 159-167: the request, or the rendering, fails
VisitError ==
    /\ Looping /\ ~Skipped(queue[1])
    /\ visited' = visited \cup {queue[1][1]}
    /\ dequeued' = Append(dequeued, queue[1])
    /\ Store([Popped EXCEPT !.fetched = Append(@, PageRequest(queue[1][1], queue[1][2])),
                            !.warnings = log_warning(@, queue[1][1])])
    /\ UNCHANGED <<cargs, cpc>>
    /\ UNCHANGED <<mainVars, callVars>>

\* webcrawler.py lines 120-124: the response is a PDF, by its content type
\* or by the URL's suffix
VisitPdf ==
    /\ Looping /\ ~Skipped(queue[1])
    /\ cargs[1].version = "v1"
    /\ \E content_type \in {"application/pdf", "text/html"} :
          /\ content_type = "application/pdf" \/ endswith(lower(queue[1][1]), ".pdf")
          /\ visited' = visited \cup {queue[1][1]}
          /\ dequeued' = Append(dequeued, queue[1])
          /\ Store(download_pdf("v1", queue[1][1], cargs[1].overwrite, FALSE, <<>>,
                                cargs[1].pdf_server,
                                [Popped EXCEPT !.fetched =
                                    Append(@, PageRequest(queue[1][1], queue[1][2]))]))
    /\ UNCHANGED <<cargs, cpc>>
    /\ UNCHANGED <<mainVars, callVars>>

\* webcrawler.py lines 126-127: the response is neither a PDF nor HTML
VisitOther ==
    /\ Looping /\ ~Skipped(queue[1])
    /\ cargs[1].version = "v1"
    /\ ~endswith(lower(queue[1][1]), ".pdf")
    /\ visited' = visited \cup {queue[1][1]}
    /\ dequeued' = Append(dequeued, queue[1])
    /\ Store([Popped EXCEPT !.fetched = Append(@, PageRequest(queue[1][1], queue[1][2]))])
    /\ UNCHANGED <<cargs, cpc>>
    /\ UNCHANGED <<mainVars, callVars>>

\* lines 129-148 / 169-180: an HTML page, its links handled one by one
VisitPage ==
    /\ Looping /\ ~Skipped(queue[1])
    /\ cargs[1].version = "v1" => ~endswith(lower(queue[1][1]), ".pdf")
    /\ \E hrefs \in LinkLists :
          /\ visited' = visited \cup {queue[1][1]}
          /\ dequeued' = Append(dequeued, queue[1])
          /\ Store(process_links(cargs[1], hrefs, queue[1][1], queue[1][2],
                                 path_list_of(queue[1]), visited \cup {queue[1][1]},
                                 [Popped EXCEPT !.fetched =
                                     Append(@, PageRequest(queue[1][1], queue[1][2]))]))
    /\ UNCHANGED <<cargs, cpc>>
    /\ UNCHANGED <<mainVars, callVars>>

\* "while queue" ends: crawl() returns
CrawlDone ==
    /\ cpc = "crawl" /\ queue = <<>>
    /\ cpc' = "done"
    /\ UNCHANGED <<cargs, visited, queue, files, warnings, traces, fetched, enqueued, dequeued>>
    /\ UNCHANGED <<mainVars, callVars>>

CrawlNext ==
    \/ SkipEntry
    \/ VisitError
    \/ VisitPdf
    \/ VisitOther
    \/ VisitPage
    \/ CrawlDone

CrawlSpec == CrawlInit /\ [][CrawlNext]_vars

\* the URL passes the two tests every link must pass: its netloc is one of
\* the allowed domains and the exclusion pattern, if given, does not match
AllowedUrl(url) ==
    /\ \E k \in 1..Len(cargs[1].domains) : urlparse(url).netloc = cargs[1].domains[k]
    /\ (cargs[1].exclude # None => ~contains(url, cargs[1].exclude[1]))

\* C18: every URL taken from a page's links and enqueued or downloaded has
\* its netloc in the allowed domains and does not match the exclusion
\* pattern; so every URL requested, the start URL apart, passes both tests.
C18_LinksStayInScope ==
    cpc # "idle" =>
        /\ \A u \in {enqueued[k][1] : k \in 1..Len(enqueued)} : AllowedUrl(u)
        /\ \A u \in ({queue[k][1] : k \in 1..Len(queue)}
                      \cup {fetched[k].url : k \in 1..Len(fetched)})
                     \ {cargs[1].start_url} : AllowedUrl(u)

\* C18 witness: a crawl with an exclusion pattern has ended after visiting
\* two pages and downloading a PDF, and never requested the excluded link
\* nor the link to the other domain
C18_Witness ==
    /\ cpc = "done" /\ cargs[1].exclude # None
    /\ Cardinality(visited) >= 2
    /\ \E k \in 1..Len(fetched) : fetched[k].kind = "pdf"
    /\ cargs[1].start_url = "http://a.org/"


\* the depths at which url was put on the queue: 0 for the start URL, and
\* depth + 1 for each link appended
EnqueuedDepths(url) ==
    {enqueued[k][2] : k \in {j \in 1..Len(enqueued) : enqueued[j][1] = url}}
        \cup (IF url = cargs[1].start_url THEN {0} ELSE {})

\* the requests for pages, the downloads of PDFs left out
PageRequests == SelectSeq(fetched, LAMBDA r : r.kind = "page")

\* C19: no page is requested or rendered at a depth greater than max_depth;
\* the depths of the entries taken from the queue never decrease; and each
\* page requested is requested at the smallest depth at which its URL was
\* ever put on the queue.
C19_DepthBoundAndOrder ==
    cpc # "idle" =>
        /\ \A k \in 1..Len(PageRequests) : PageRequests[k].depth <= cargs[1].max_depth
        /\ \A k \in 1..(Len(dequeued) - 1) : dequeued[k][2] <= dequeued[k + 1][2]
        /\ \A k \in 1..Len(PageRequests) :
              /\ PageRequests[k].depth \in EnqueuedDepths(PageRequests[k].url)
              /\ \A d \in EnqueuedDepths(PageRequests[k].url) : PageRequests[k].depth <= d

\* C19 witness: the crawl has ended; an entry was dropped for its depth, and
\* a page put on the queue at two depths was requested
C19_Witness ==
    /\ cpc = "done"
    /\ \E k \in 1..Len(dequeued) : dequeued[k][2] > cargs[1].max_depth
    /\ \E k \in 1..Len(PageRequests) :
          Cardinality(EnqueuedDepths(PageRequests[k].url)) >= 2


(***************************************************************************)
(* One call of download_pdf on its own: the URL, --overwrite, --trace,     *)
(* whether the target file is already in the output directory, and the     *)
(* outcome of each of the two attempts are the inputs.                     *)
(***************************************************************************)
DownloadUrls == {"http://a.org/x.pdf", "http://a.org/pdf?id=7", "http://a.org/d/"}
Outcomes     == {"ok", "request_error", "open_error", "write_error", "trace_error"}

\* the outcomes an attempt can have: with an empty file name the path is the
\* output directory, which open() refuses, and log_trace only runs in v2
\* with --trace
PossibleOutcomes(version, trace, url) ==
    {o \in Outcomes : effective(version, trace, pdf_filename(version, url), o) = o}

DownloadArgs ==
    {[version |-> v, url |-> u, overwrite |-> o, trace |-> t, existing |-> x,
      path_list |-> <<"http://a.org/">>, outcomes |-> <<o1, o2>>] :
        v \in {"v1", "v2"}, u \in DownloadUrls, o \in BOOLEAN, t \in BOOLEAN,
        x \in BOOLEAN, o1 \in Outcomes, o2 \in Outcomes}

\* the output directory before the call
FilesBefore(a) ==
    IF a.existing /\ pdf_filename(a.version, a.url) # ""
    THEN <<<<pdf_filename(a.version, a.url), <<"earlier", "complete">>>>>>
    ELSE <<>>

DownloadInit ==
    /\ MainIdle
    /\ NoCall
    /\ cargs \in {Some(a) : a \in
          {d \in DownloadArgs :
              /\ d.version = "v1" => ~d.trace
              /\ \A k \in 1..2 :
                    d.outcomes[k] \in PossibleOutcomes(d.version, d.trace, d.url)}}
    /\ cpc = "download"
    /\ visited = {} /\ queue = <<>>
    /\ files = FilesBefore(cargs[1])
    /\ warnings = <<>> /\ traces = <<>>
    /\ fetched = <<>> /\ enqueued = <<>> /\ dequeued = <<>>

\* download_pdf(url, output_dir, overwrite[, trace, path_list]) is called
\* and returns
ApplyDownload ==
    /\ cpc = "download"
    /\ cpc' = "downloaded"
    /\ Store(download_pdf(cargs[1].version, cargs[1].url, cargs[1].overwrite,
                          cargs[1].trace, cargs[1].path_list, cargs[1].outcomes,
                          [queue |-> queue, enqueued |-> enqueued, files |-> files,
                           warnings |-> warnings, traces |-> traces,
                           fetched |-> fetched]))
    /\ UNCHANGED <<cargs, visited, dequeued>>
    /\ UNCHANGED <<mainVars, callVars>>

DownloadNext == ApplyDownload

DownloadSpec == DownloadInit /\ [][DownloadNext]_vars

\* os.path.exists(filepath) before the call: the file is there, or the name
\* is empty and filepath is the output directory
TargetExists(a) == a.existing \/ pdf_filename(a.version, a.url) = ""

\* attempt k of the call raises
AttemptFails(a, k) == a.outcomes[k] # "ok"

\* C20: one call of download_pdf makes no request and leaves the file as it
\* was when the target exists and overwrite is off; otherwise it makes at
\* most two requests, none after the first attempt that succeeds, and adds
\* exactly one entry to WARNINGS.txt when both attempts fail and none when
\* one succeeds.
C20_DownloadAttempts ==
    cpc = "downloaded" =>
        LET a == cargs[1] IN
        IF TargetExists(a) /\ ~a.overwrite
        THEN fetched = <<>> /\ files = FilesBefore(a) /\ warnings = <<>>
        ELSE /\ Len(fetched) <= 2
             /\ Len(fetched) = (IF AttemptFails(a, 1) THEN 2 ELSE 1)
             /\ \A k \in 1..Len(fetched) : fetched[k] = [url |-> a.url, kind |-> "pdf"]
             /\ AttemptFails(a, 1) /\ AttemptFails(a, 2)
                    => warnings = <<<<"Failed", a.url>>>>
             /\ ~AttemptFails(a, 1) \/ ~AttemptFails(a, 2) => warnings = <<>>

\* C20 witness: an existing file is overwritten, the first attempt fails
\* after the request and the second succeeds: two requests, no warning
C20_Witness ==
    /\ cpc = "downloaded"
    /\ cargs[1].existing /\ cargs[1].overwrite
    /\ cargs[1].outcomes = <<"write_error", "ok">>
    /\ Len(fetched) = 2 /\ warnings = <<>>


\* the URLs requested or rendered as pages, in the order of the requests
PageUrls == [k \in 1..Len(PageRequests) |-> PageRequests[k].url]

\* the entries taken from the queue so far that name url
DequeuedFor(url) == {k \in 1..Len(dequeued) : dequeued[k][1] = url}

\* no URL is requested as a page twice, and visited holds exactly the URLs
\* requested
C21_Inv ==
    cpc # "idle" =>
        /\ \A i, j \in 1..Len(PageUrls) : PageUrls[i] = PageUrls[j] => i = j
        /\ visited = {PageUrls[k] : k \in 1..Len(PageUrls)}

\* visited never loses a URL, and the step that takes an entry for a visited
\* URL from the queue makes no request and writes nothing
C21_Step ==
    /\ visited \subseteq visited'
    /\ (cpc = "crawl" /\ queue # <<>> /\ queue[1][1] \in visited) =>
          /\ fetched' = fetched /\ warnings' = warnings /\ files' = files
          /\ visited' = visited
          /\ dequeued' = Append(dequeued, queue[1])

\* C21: each URL is requested or rendered as a page at most once in a crawl,
\* also when it is put on the queue several times and when its request
\* failed: a URL stays in visited, and every later entry for it is skipped.
C21_EachUrlFetchedOnce == []C21_Inv /\ [][C21_Step]_vars

\* C21 witness: the crawl has ended; a URL whose request failed was taken
\* from the queue at least twice and requested once
C21_Witness ==
    /\ cpc = "done"
    /\ \E k \in 1..Len(PageUrls) :
          /\ Cardinality(DequeuedFor(PageUrls[k])) >= 2
          /\ \E w \in 1..Len(warnings) : warnings[w] = <<"Failed", PageUrls[k]>>
          /\ PageRequests[k].depth <= cargs[1].max_depth


(***************************************************************************)
(* Termination of crawl().  Each pass of the "while queue" loop is         *)
(* straight-line code around one request, so a crawl that can take a step  *)
(* takes it, provided the request or the rendering returns.                *)
(***************************************************************************)
CrawlLiveSpec == CrawlInit /\ [][CrawlNext]_vars /\ WF_vars(CrawlNext)

\* the largest number of links on a page served
MaxLinks == CHOOSE n \in {Len(l) : l \in LinkLists} : \A l \in LinkLists : Len(l) <= n

\* 1 + n + ... + n^levels: the entries a crawl can put on the queue when
\* every page has at most n links and links are followed levels deep
RECURSIVE Capacity(_, _)
Capacity(n, levels) == IF levels = 0 THEN 1 ELSE 1 + n * Capacity(n, levels - 1)

\* no entry lies deeper than max_depth + 1, and the entries taken from the
\* queue and those still on it are no more than a tree of that depth holds
C22_Bounded ==
    cpc # "idle" =>
        /\ \A k \in 1..Len(queue) : queue[k][2] <= cargs[1].max_depth + 1
        /\ Len(dequeued) + Len(queue) <= Capacity(MaxLinks, cargs[1].max_depth + 1)
        /\ cpc = "done" => queue = <<>>

\* C22: with finitely many links on every page and a finite max_depth the
\* crawl loop ends with the queue empty, cycles in the link graph and the
\* unchecked enqueueing of webcrawler-v2 notwithstanding.
C22_CrawlTerminates == []C22_Bounded /\ <>(cpc = "done" /\ queue = <<>>)

\* C22 witness: a crawl of webcrawler-v2 has ended although a page linked
\* back to the start URL and a URL was put on the queue more than once
C22_Witness ==
    /\ cpc = "done" /\ queue = <<>>
    /\ cargs[1].version = "v2"
    /\ \E k \in 1..Len(enqueued) : enqueued[k][1] = cargs[1].start_url
    /\ \E i, j \in 1..Len(enqueued) : i < j /\ enqueued[i][1] = enqueued[j][1]
    /\ Len(PageRequests) >= 2

=============================================================================
